---------------------------- MODULE Spec2Model ----------------------------
(***************************************************************************)
(* Model of onnxruntime/core/mlas/lib/q4_dq.cpp: blocked int4 quantization *)
(* and dequantization.                                                     *)
(*                                                                         *)
(*  - the Q4 GEMM packed format (MlasQ4GemmPackBSize / PackB / UnPackB),   *)
(*  - the blockwise quantizer (BlockwiseQuantizer and its dispatch layer). *)
(*                                                                         *)
(* Floating point values are modelled as exact rationals <<num, den>> with *)
(* den > 0 in lowest terms; the source matrices hold small integers.       *)
(* ElementT is modelled for float only.                                    *)
(***************************************************************************)
EXTENDS Integers, Sequences, FiniteSets, TLC

(***************************************************************************)
(* Bounds of the model.                                                    *)
(***************************************************************************)
\* largest N (columns) of a Q4 GEMM B matrix
MaxN == 2
\* largest number of whole k-blocks below the last (possibly ragged) one
MaxKBlocks == 1
\* blockwise quantizer: largest number of whole quantization blocks along
\* the blocked axis below the last (possibly ragged) one
MaxBlocks == 2
\* blockwise quantizer: largest extent along the axis that is not blocked
MaxCross == 3
\* blockwise quantizer: the callers of the model quantize matrices of at most
\* MaxTiles tiles and MaxElements elements
MaxTiles == 4
MaxElements == 130
\* the largest finite float stands at FltMax on the scale of the model's values
FltMax == 1000
\* scanned ranges: numerators up to MaxRange
MaxRange == 5
MaxPacks == 3
MaxQdqRows == 3
MaxQdqGroups == 9

(***************************************************************************)
(* Integer helpers.                                                        *)
(***************************************************************************)
Min2(a, b) == IF a < b THEN a ELSE b
Max2(a, b) == IF a > b THEN a ELSE b
Abs(a) == IF a < 0 THEN 0 - a ELSE a

SetMin(S) == CHOOSE x \in S : \A y \in S : x <= y
SetMax(S) == CHOOSE x \in S : \A y \in S : x >= y

RECURSIVE Gcd(_, _)
Gcd(a, b) == IF b = 0 THEN a ELSE Gcd(b, a % b)

\* the set of the elements of a sequence
Range(s) == {s[i] : i \in 1..Len(s)}

\* how many times x occurs in the sequence s
Occurrences(s, x) == Cardinality({i \in 1..Len(s) : s[i] = x})

(***************************************************************************)
(* float, modelled as an exact rational <<num, den>>, den > 0.             *)
(***************************************************************************)
\* the rational n / d (d # 0) in lowest terms: the form stored floats have
RNorm(n, d) ==
    LET s == IF d < 0 THEN 0 - 1 ELSE 1
        g == Gcd(Abs(n), Abs(d))
    IN  IF n = 0 THEN <<0, 1>> ELSE <<(s * n) \div g, (s * d) \div g>>
RStored(r) == RNorm(r[1], r[2])

RInt(i) == <<i, 1>>
RZero == <<0, 1>>
RIsZero(r) == r[1] = 0
\* intermediate results keep den > 0 and need not be in lowest terms
RAdd(a, b) == <<a[1] * b[2] + b[1] * a[2], a[2] * b[2]>>
RSub(a, b) == <<a[1] * b[2] - b[1] * a[2], a[2] * b[2]>>
RMul(a, b) == <<a[1] * b[1], a[2] * b[2]>>
\* a / b, b # 0
RDiv(a, b) ==
    IF b[1] < 0 THEN <<0 - a[1] * b[2], 0 - a[2] * b[1]>>
    ELSE <<a[1] * b[2], a[2] * b[1]>>
RLess(a, b) == a[1] * b[2] < b[1] * a[2]
RAbs(a) == <<Abs(a[1]), a[2]>>
RMin(a, b) == IF RLess(b, a) THEN b ELSE a
RMax(a, b) == IF RLess(a, b) THEN b ELSE a
\* the largest integer <= r
RFloor(r) == r[1] \div r[2]
\* roundf: to nearest, halfway cases away from zero
Roundf(r) ==
    IF r[1] >= 0 THEN (2 * r[1] + r[2]) \div (2 * r[2])
    ELSE 0 - ((2 * (0 - r[1]) + r[2]) \div (2 * r[2]))
\* (uint8_t) of a float already clamped to [0, 255]: truncation
TruncU8(r) == RFloor(r)
\* the largest finite float, on the scale of the model's values, and the
\* float a result beyond it becomes
RInf == <<1, 0>>
FltOverflow(r) == IF RLess(RInt(FltMax), RAbs(r)) THEN RInf ELSE r
\* a float that is not a number, and whether r is a finite float
RNaN == <<2, 0>>
RIsFinite(r) == r[2] # 0
\* the float product a * b: inf * 0 is not a number, and neither is a
\* product with one
FltMul(a, b) ==
    IF a = RNaN \/ b = RNaN THEN RNaN
    ELSE IF RIsFinite(a) /\ RIsFinite(b) THEN RStored(RMul(a, b))
    ELSE IF RIsZero(a) \/ RIsZero(b) THEN RNaN
    ELSE <<(IF a[1] < 0 THEN 0 - 1 ELSE 1) * (IF b[1] < 0 THEN 0 - 1 ELSE 1), 0>>
\* scale ? 1.0f / scale : 0.0f
Reciprocal(scale) == IF RIsZero(scale) THEN RZero ELSE RDiv(RInt(1), scale)

(***************************************************************************)
(* float in the arithmetic of the machine: a binary32 value is the triple  *)
(* <<sign, exponent field, fraction field>> of its bits; every operation   *)
(* rounds to nearest, ties to even, with gradual underflow.                *)
(***************************************************************************)
RECURSIVE Pow2(_)
Pow2(n) == IF n = 0 THEN 1 ELSE 2 * Pow2(n - 1)

\* the number of bits of n >= 0
RECURSIVE BitLen(_)
BitLen(n) == IF n = 0 THEN 0 ELSE 1 + BitLen(n \div 2)

F32Zero == <<0, 0, 0>>
F32Inf(s) == <<s, 255, 0>>
F32NaN == <<0, 255, Pow2(22)>>
F32IsNaN(x) == x[2] = 255 /\ x[3] # 0
F32IsInf(x) == x[2] = 255 /\ x[3] = 0
F32IsZero(x) == x[2] = 0 /\ x[3] = 0
F32Neg(x) == <<1 - x[1], x[2], x[3]>>
\* fabsf
F32Abs(x) == <<0, x[2], x[3]>>

\* F at the value of v, v being computed once
Once(v, F(_)) == CHOOSE r \in {F(w) : w \in {v}} : TRUE

\* a finite x is (-1)^sign * sig * 2^exp
F32Sig(x) == IF x[2] = 0 THEN x[3] ELSE Pow2(23) + x[3]
F32Exp(x) == IF x[2] = 0 THEN 0 - 149 ELSE x[2] - 150
\* the same with sig in [2^23, 2^24), of a finite x # 0
F32Norm(x) ==
    Once(x, LAMBDA v :
      Once(24 - BitLen(F32Sig(v)), LAMBDA sh :
        [sig |-> F32Sig(v) * Pow2(sh), exp |-> F32Exp(v) - sh]))

\* the same bits with a result below the normal floats flushed to zero
F32EncodeFlushToZero(s, sig, exp) ==
    IF sig < Pow2(23) THEN <<s, 0, 0>>
    ELSE IF exp + 150 >= 255 THEN F32Inf(s)
    ELSE <<s, exp + 150, sig - Pow2(23)>>

\* the bits of (-1)^s * sig * 2^exp, where sig < 2^24 and either
\* sig >= 2^23 or exp = -149: beyond the largest finite float it is infinite
F32Encode(s, sig, exp) ==
    IF sig < Pow2(23) THEN <<s, 0, sig>>
    ELSE IF exp + 150 >= 255 THEN F32Inf(s)
    ELSE <<s, exp + 150, sig - Pow2(23)>>

\* the float nearest to (-1)^s * (sig + t) * 2^exp, where 0 < sig < 2^30 and
\* 0 <= t < 1, t # 0 iff sticky (then sig has 26 bits or more)
F32Round(s, sig, exp, sticky) ==
    Once(<<s, sig, exp, sticky, BitLen(sig)>>, LAMBDA v :
      LET len == v[5]
          sh == Max2(len - 24, (0 - 149) - v[3])
      IN  IF sh <= 0
          THEN LET t == Min2(24 - len, v[3] + 149)
               IN  F32Encode(v[1], v[2] * Pow2(t), v[3] - t)
          ELSE IF sh > 30 THEN <<v[1], 0, 0>>
          ELSE Once(<<v[2] \div Pow2(sh), v[2] % Pow2(sh), Pow2(sh - 1)>>,
                    LAMBDA qrh :
                 LET q == qrh[1]
                     rem == qrh[2]
                     half == qrh[3]
                     up == \/ rem > half
                           \/ rem = half /\ (v[4] \/ q % 2 = 1)
                     q2 == IF up THEN q + 1 ELSE q
                 IN  IF q2 = Pow2(24)
                     THEN F32Encode(v[1], Pow2(23), v[3] + sh + 1)
                     ELSE F32Encode(v[1], q2, v[3] + sh)))

\* static_cast<float>(i), |i| < 2^24
F32OfInt(i) ==
    IF i = 0 THEN F32Zero
    ELSE F32Round(IF i < 0 THEN 1 ELSE 0, Abs(i), 0, FALSE)

\* n / 2^k as a float literal, 0 < n < 2^24 (8.5f is 17 / 2)
F32Dyadic(n, k) == F32Round(0, n, 0 - k, FALSE)

\* std::numeric_limits<float>::max() and the smallest float above 0
F32Max == <<0, 254, Pow2(23) - 1>>
F32Tiny == <<0, 0, 1>>

\* a < b of finite or infinite floats; -0.0f and 0.0f are equal
F32Key(x) == (IF x[1] = 1 THEN 0 - 1 ELSE 1) * (x[2] * Pow2(23) + x[3])
F32Less(x, y) ==
    Once(<<x, y>>, LAMBDA p :
      ~F32IsNaN(p[1]) /\ ~F32IsNaN(p[2]) /\ F32Key(p[1]) < F32Key(p[2]))
\* a == b
F32Eq(x, y) ==
    Once(<<x, y>>, LAMBDA p :
      ~F32IsNaN(p[1]) /\ ~F32IsNaN(p[2]) /\ F32Key(p[1]) = F32Key(p[2]))

\* seven more bits of the quotient <<q, r>> of a division by d
F32DivStep(qr, d) ==
    Once(<<qr, d>>, LAMBDA v :
      <<v[1][1] * 128 + (v[1][2] * 128) \div v[2], (v[1][2] * 128) % v[2]>>)

\* a / b
F32Div(x, y) ==
    Once(<<x, y>>, LAMBDA p :
      LET a == p[1]
          b == p[2]
          s == (a[1] + b[1]) % 2
      IN  IF F32IsNaN(a) \/ F32IsNaN(b) THEN F32NaN
          ELSE IF F32IsInf(a) THEN (IF F32IsInf(b) THEN F32NaN ELSE F32Inf(s))
          ELSE IF F32IsInf(b) THEN <<s, 0, 0>>
          ELSE IF F32IsZero(b)
          THEN (IF F32IsZero(a) THEN F32NaN ELSE F32Inf(s))
          ELSE IF F32IsZero(a) THEN <<s, 0, 0>>
          ELSE Once(<<F32Norm(a), F32Norm(b)>>, LAMBDA n :
                 Once(F32DivStep(
                        F32DivStep(
                          F32DivStep(
                            F32DivStep(<<n[1].sig \div n[2].sig,
                                         n[1].sig % n[2].sig>>, n[2].sig),
                            n[2].sig),
                          n[2].sig),
                        n[2].sig),
                      LAMBDA qr :
                        F32Round(s, qr[1], n[1].exp - n[2].exp - 28,
                                 qr[2] # 0))))

\* a * b
F32Mul(x, y) ==
    Once(<<x, y>>, LAMBDA p :
      LET a == p[1]
          b == p[2]
          s == (a[1] + b[1]) % 2
      IN  IF F32IsNaN(a) \/ F32IsNaN(b) THEN F32NaN
          ELSE IF F32IsInf(a) \/ F32IsInf(b)
          THEN (IF F32IsZero(a) \/ F32IsZero(b) THEN F32NaN ELSE F32Inf(s))
          ELSE IF F32IsZero(a) \/ F32IsZero(b) THEN <<s, 0, 0>>
          ELSE Once(<<F32Norm(a), F32Norm(b)>>, LAMBDA n :
                 LET ah == n[1].sig \div 4096
                     al == n[1].sig % 4096
                     bh == n[2].sig \div 4096
                     bl == n[2].sig % 4096
                     mid == ah * bl + al * bh
                     lo_full == al * bl + (mid % 4096) * 4096
                     lo == lo_full % Pow2(24)
                     hi == ah * bh + mid \div 4096 + lo_full \div Pow2(24)
                 IN  \* the product is hi * 2^24 + lo, in [2^46, 2^48)
                     F32Round(s, hi * 4 + lo \div Pow2(22),
                              n[1].exp + n[2].exp + 22, lo % Pow2(22) # 0)))

\* a + b
F32Add(x, y) ==
    Once(<<x, y>>, LAMBDA p :
      LET a == p[1]
          b == p[2]
      IN  IF F32IsNaN(a) \/ F32IsNaN(b) THEN F32NaN
          ELSE IF F32IsInf(a)
          THEN (IF F32IsInf(b) /\ a[1] # b[1] THEN F32NaN ELSE a)
          ELSE IF F32IsInf(b) THEN b
          ELSE IF F32IsZero(a)
          THEN (IF F32IsZero(b)
                THEN <<IF a[1] = 1 /\ b[1] = 1 THEN 1 ELSE 0, 0, 0>>
                ELSE b)
          ELSE IF F32IsZero(b) THEN a
          ELSE Once(<<F32Norm(a), F32Norm(b)>>, LAMBDA n :
                 LET aBig == \/ n[1].exp > n[2].exp
                             \/ n[1].exp = n[2].exp /\ n[1].sig >= n[2].sig
                     big == IF aBig THEN n[1] ELSE n[2]
                     small == IF aBig THEN n[2] ELSE n[1]
                     sBig == IF aBig THEN a[1] ELSE b[1]
                     d == big.exp - small.exp
                     \* three guard bits; what is shifted out stays as the
                     \* last bit
                     A == big.sig * 8
                     B == IF d > 27 THEN 1
                          ELSE LET q == (small.sig * 8) \div Pow2(d)
                               IN  IF (small.sig * 8) % Pow2(d) # 0
                                   THEN (q \div 2) * 2 + 1 ELSE q
                 IN  Once(IF a[1] = b[1] THEN A + B ELSE A - B, LAMBDA sum :
                       IF sum = 0 THEN F32Zero
                       ELSE F32Round(sBig, sum, big.exp - 3, FALSE))))

\* a - b
F32Sub(x, y) == F32Add(x, F32Neg(y))

\* rintf(x) as an integer: to nearest, halfway cases to even
F32RoundfTiesEven(x) ==
    Once(x, LAMBDA v :
      LET sgn == IF v[1] = 1 THEN 0 - 1 ELSE 1
          sig == F32Sig(v)
          exp == F32Exp(v)
      IN  IF F32IsInf(v) THEN sgn * Pow2(30)
          ELSE IF exp > 6 THEN sgn * Pow2(30)
          ELSE IF exp >= 0 THEN sgn * sig * Pow2(exp)
          ELSE IF 0 - exp > 30 THEN 0
          ELSE LET q == sig \div Pow2(0 - exp)
                   rem == sig % Pow2(0 - exp)
                   half == Pow2((0 - exp) - 1)
               IN  sgn * (q + (IF rem > half \/ (rem = half /\ q % 2 = 1)
                               THEN 1 ELSE 0)))

\* roundf(x) as an integer: to nearest, halfway cases away from zero; a
\* magnitude of 2^30 or more is given as 2^30 (the callers clamp the result)
F32Roundf(x) ==
    Once(x, LAMBDA v :
      LET sgn == IF v[1] = 1 THEN 0 - 1 ELSE 1
          sig == F32Sig(v)
          exp == F32Exp(v)
      IN  IF F32IsInf(v) THEN sgn * Pow2(30)
          ELSE IF exp > 6 THEN sgn * Pow2(30)
          ELSE IF exp >= 0 THEN sgn * sig * Pow2(exp)
          ELSE IF 0 - exp > 30 THEN 0
          ELSE sgn * (sig \div Pow2(0 - exp)
                      + (IF sig % Pow2(0 - exp) >= Pow2((0 - exp) - 1)
                         THEN 1 ELSE 0)))

\* (uint8_t)x of a float x in [0, 255]: truncation
F32TruncU8(x) ==
    Once(x, LAMBDA v :
      IF F32Exp(v) >= 0 THEN F32Sig(v) * Pow2(F32Exp(v))
      ELSE IF 0 - F32Exp(v) > 30 THEN 0
      ELSE F32Sig(v) \div Pow2(0 - F32Exp(v)))

\* std::min(a, b) and std::max(a, b): (b < a) ? b : a and (a < b) ? b : a
F32Min(x, y) ==
    Once(<<x, y>>, LAMBDA p : IF F32Less(p[2], p[1]) THEN p[2] ELSE p[1])
F32Max2(x, y) ==
    Once(<<x, y>>, LAMBDA p : IF F32Less(p[1], p[2]) THEN p[2] ELSE p[1])

\* the same bytes, highest address first
F32BytesBigEndian(x) ==
    << x[1] * 128 + x[2] \div 2,
       (x[2] % 2) * 128 + x[3] \div 65536,
       (x[3] \div 256) % 256,
       x[3] % 256 >>

\* the four bytes of a float in memory, lowest address first (little endian)
F32Bytes(x) ==
    << x[3] % 256,
       (x[3] \div 256) % 256,
       (x[2] % 2) * 128 + x[3] \div 65536,
       x[1] * 128 + x[2] \div 2 >>

(***************************************************************************)
(* The source matrices.  Element idx of the row-major float buffer of      *)
(* pattern seed; pattern 0 is the all-zero matrix, pattern 3 has its       *)
(* values in [-1, 1], pattern 4 has the largest finite floats and zeros,   *)
(* the others have their values in [-8, 8].                                *)
(***************************************************************************)
SrcInt(seed, idx) ==
    IF seed = 0 THEN 0
    ELSE IF seed = 3 THEN ((idx * 5 + 1) % 3) - 1
    ELSE IF seed = 4 THEN (((idx * 5 + 1) % 3) - 1) * FltMax
    ELSE ((idx * (2 * seed + 3) + 5 * seed) % 17) - 8

SrcAt(seed, idx) == RInt(SrcInt(seed, idx))

\* src[idx] of a call: an element of a pattern, or of the matrix mat an
\* earlier call produced
FromMatrix == 0 - 1
Src(data, idx) ==
    IF data.seed = FromMatrix THEN data.mat[idx] ELSE SrcAt(data.seed, idx)

\* the smallest and the largest of a set of finite floats
RSetMin(S) == CHOOSE x \in S : \A y \in S : ~RLess(y, x)
RSetMax(S) == CHOOSE x \in S : \A y \in S : ~RLess(x, y)

(***************************************************************************)
(* Q4 GEMM block descriptors (q4common.h is not part of the sources; the   *)
(* byte layout of a blob is the one the specification's table gives).      *)
(***************************************************************************)
QTypes == {"BlkQ4Sym", "BlkQ4Zp8", "BlkQ4Sym64", "BlkQ4Sym128"}
Q4Types == {"BLK0", "BLK1", "BLK2", "BLK4"}

\* T::BlkLen
BlkLen(T) ==
    CASE T = "BLK0" -> 32
      [] T = "BLK1" -> 32
      [] T = "BLK2" -> 64
      [] T = "BLK4" -> 128

\* whether a blob of T carries a zero point byte
HasZeroPoint(T) == T = "BLK1"

\* T::BlobSize: [scale : 4 bytes] [zp : 1 byte, BLK1 only] [payload : BlkLen/2]
BlobSize(T) == 4 + (IF HasZeroPoint(T) THEN 1 ELSE 0) + BlkLen(T) \div 2

\* byte offsets inside a blob: MlasQ4BlkScale, MlasQ4BlkZeroPoint, MlasQ4BlkData
MlasQ4BlkScaleOff(T) == 0
MlasQ4BlkZeroPointOff(T) == 4
MlasQ4BlkDataOff(T) == IF HasZeroPoint(T) THEN 5 ELSE 4

\* MlasDivRoundup (mlasi.h)
MlasDivRoundup(up, down) == (up + down - 1) \div down

\* the switch (QType) of MlasQ4GemmPackBSize / MlasQ4GemmPackB / MlasQ4GemmUnPackB
Q4TypeOf(QType) ==
    CASE QType = "BlkQ4Sym" -> "BLK0"
      [] QType = "BlkQ4Sym64" -> "BLK2"
      [] QType = "BlkQ4Sym128" -> "BLK4"
      [] OTHER -> "BLK1"

BlkQ4BufSizeNoRoundup(T, N, K) == N * (K \div BlkLen(T)) * BlobSize(T)

\* BlkQ4BufSize<T>(N, K)
BlkQ4BufSize(T, N, K) ==
    LET KBlocks == MlasDivRoundup(K, BlkLen(T))
    IN  N * KBlocks * BlobSize(T)

\* MlasQ4GemmPackBSize; dispatch is GetMlasPlatform().FpQ4GemmDispatch != nullptr
MlasQ4GemmPackBSize(dispatch, QType, N, K) ==
    IF ~dispatch THEN 0
    ELSE BlkQ4BufSize(Q4TypeOf(QType), N, K)

(***************************************************************************)
(* BitsTraits and the shapes of BlockwiseQuantizer<T, block_size, qbits,   *)
(* Columnwise>.                                                            *)
(***************************************************************************)
kMax(qbits) == 2 ^ qbits - 1
kMid(qbits) == 2 ^ (qbits - 1)
kPackSize(qbits) ==
    IF qbits = 8 THEN 1 ELSE IF qbits = 4 THEN 2 ELSE IF qbits = 2 THEN 4 ELSE 0

\* QuantBlk = Columnwise ? Shape2D<block_size, 1> : Shape2D<1, block_size>
QuantBlkRow(B, cw) == IF cw THEN B ELSE 1
QuantBlkCol(B, cw) == IF cw THEN 1 ELSE B
\* ThreadBlk = Shape2D<QuantBlk::kRow * kPackSize, QuantBlk::kColumn>
ThreadBlkRow(B, cw) == QuantBlkRow(B, cw) * kPackSize(4)
ThreadBlkCol(B, cw) == QuantBlkCol(B, cw)

\* quantizeMetaShape: <<meta_rows, meta_cols>>
quantizeMetaShape(B, cw, rows, columns) ==
    << (rows + QuantBlkRow(B, cw) - 1) \div QuantBlkRow(B, cw),
       (columns + QuantBlkCol(B, cw) - 1) \div QuantBlkCol(B, cw) >>

quantizedShapeUnpacked(B, cw, rows, columns) ==
    LET meta == quantizeMetaShape(B, cw, rows, columns)
    IN  << meta[1] * QuantBlkRow(B, cw), meta[2] * QuantBlkCol(B, cw) >>

\* quantizedShape: <<q_rows, q_cols>>, column major, packed by column
quantizedShape(B, cw, rows, columns) ==
    LET meta == quantizeMetaShape(B, cw, rows, columns)
    IN  << (meta[1] * QuantBlkRow(B, cw) * 4 + 7) \div 8,
           meta[2] * QuantBlkCol(B, cw) >>

\* quantizedBufferSizes: <<data_bytes, scale_num_elements, zero_point_bytes>>;
\* the third is -1 (never stored) when the zero_point_bytes pointer is null
quantizedBufferSizes(B, cw, rows, columns, wantZp) ==
    LET meta == quantizeMetaShape(B, cw, rows, columns)
        q == quantizedShape(B, cw, rows, columns)
    IN  << q[1] * q[2],
           meta[1] * meta[2],
           IF wantZp THEN ((meta[1] * 4 + 7) \div 8) * meta[2] ELSE 0 - 1 >>

\* the block sizes the dispatch switches instantiate
BlockSizes == {16, 32, 64, 128, 256}

\* MlasBlockwiseQuantMetaShape<T, 4>
MlasBlockwiseQuantMetaShape(block_size, cw, rows, columns) ==
    IF block_size \in BlockSizes
    THEN quantizeMetaShape(block_size, cw, rows, columns)
    ELSE <<0, 0>>

\* MlasBlockwiseQuantizedShape<T, 4>
MlasBlockwiseQuantizedShape(block_size, cw, rows, columns) ==
    IF block_size \in BlockSizes
    THEN quantizedShape(block_size, cw, rows, columns)
    ELSE <<0, 0>>

MlasBlockwiseQuantizedBufferSizesAnyBits(qbits, block_size, cw, rows, columns, wantZp) ==
    IF block_size \in BlockSizes
    THEN quantizedBufferSizes(block_size, cw, rows, columns, wantZp)
    ELSE <<0, 0, IF wantZp THEN 0 ELSE 0 - 1>>

\* MlasBlockwiseQuantizedBufferSizes
MlasBlockwiseQuantizedBufferSizes(qbits, block_size, cw, rows, columns, wantZp) ==
    IF qbits = 4 /\ block_size \in BlockSizes
    THEN quantizedBufferSizes(block_size, cw, rows, columns, wantZp)
    ELSE <<0, 0, IF wantZp THEN 0 ELSE 0 - 1>>

(***************************************************************************)
(* State.                                                                  *)
(***************************************************************************)
VARIABLES
    \* --- what the size helpers returned to the caller
    sz_packb,       \* what MlasQ4GemmPackBSize returned (-1: not called)
    sz_meta,        \* <<meta_rows, meta_cols>> of MlasBlockwiseQuantMetaShape
    sz_qshape,      \* <<q_rows, q_cols>> of MlasBlockwiseQuantizedShape
    sz_bufs,        \* <<data, scales, zp>> of MlasBlockwiseQuantizedBufferSizes
    sz_call,        \* [qbits, wantZp]: the arguments of that call
    \* --- MlasQ4GemmPackBSize, MlasQ4GemmPackB, then MlasQ4GemmUnPackB
    q4_in,          \* [QType, dispatch, N, K, ldb, seed]
    q4_pc,          \* "idle", "sized", "pack", "packed", "unpack", "done"
    q4_n,           \* loop variable n
    q4_k,           \* loop variable k
    q4_FpData,      \* pack: the FpData pointer, as an index of the source
    q4_src,         \* pack: the src pointer, as an index of the source;
                    \* unpack: the src pointer, as an offset of PackedBuf
    q4_dst_ptr,     \* pack: dst_ptr, as an offset of PackedBuf
    PackedBuf,      \* the packed bytes (-1: never written)
    PackedScale,    \* the float stored in the 4 bytes that start at an offset
    q4_blobs,       \* the blobs emitted so far, in order: [n, kb, off, bytes]
    q4_elem,        \* per index of the source: the [q, scale, zp] pack used
    FpOut,          \* unpack: the FpData it writes (<<0, 0>>: never written)
    q4_outWrites,   \* unpack: the indices of FpData written so far
    \* --- the blockwise size helpers, MlasQuantizeBlockwise, then
    \* --- MlasDequantizeBlockwise
    bq_in,          \* [block_size, cw, rows, columns]
    bq_data,        \* [seed, ld, hasZp]: the source matrix, its leading
                    \* dimension, whether zero_points is not null
    bq_pc,          \* "idle", "meta", "qshape", "sized", "quant", "quantized",
                    \* "dequant", "done"
    bq_tile,        \* per block_idx: "scan", "emit", "deq" or "done"
    bq_zp_bytes,    \* per tile: the local zp_bytes[2]
    bq_dst,         \* the quantized weights (-1: never written)
    bq_scales,      \* the scales (<<0, 0>>: never written)
    bq_zero_points, \* the packed zero points (-1: never written)
    bq_dstW,        \* per tile: the indices of dst it wrote, in order
    bq_scW,         \* per tile: the indices of scales it wrote, in order
    bq_zpW,         \* per tile: the indices of zero_points it wrote, in order
    bq_scR,         \* per tile: the indices of scales it read
    bq_out,         \* dequantize: its dst (<<0, 0>>: never written)
    bq_outW,        \* per tile: the indices of the dequantized dst it wrote
    \* --- range reduction, applied to one scanned range
    rr_in,          \* [min, max]: the range a scan found, min <= max
    rr_pc,          \* "idle" or "done"
    rr_out,         \* [fn, scale, zp]: what the function stored
    \* --- a caller that packs a matrix, dequantizes it and packs it again
    id_in,          \* [block_size, cw, rows, columns]
    id_data,        \* [seed, ld, hasZp] of the first pack, then [seed, ld,
                    \* hasZp, mat] with the matrix the last dequantize gave
    id_packs,       \* [dst, scales, zero_points] of every pack so far
    id_pc,          \* "idle", "src" or "packed"
    \* --- BlockwiseQDQQuantizer<float, qbits>
    qd_in,          \* [qbits, rows, columns, quant_block_size, rowwise]
    qd_data,        \* [seed, hasZp]: the source matrix, whether zero_points
                    \* is not null
    qd_pc,          \* "idle", "call", "tiles", "done", "transposed" or
                    \* "failed"
    qd_err,         \* "none", or the failure the call raised
    qd_tile,        \* per thr_blk_idx: "todo" or "done"
    qd_dst,         \* the quantized weights (-1: never written)
    qd_scales,      \* the scales (<<0, 0>>: never written)
    qd_zero_points, \* the packed zero points (-1: never written)
    qd_dstW,        \* per tile: the indices of dst it wrote, in order
    qd_scW,         \* per tile: the indices of scales it wrote, in order
    qd_zpW,         \* per tile: the indices of zero_points it wrote, in order
    qd_dest,        \* dest of Transpose (-1: never written)
    \* --- the Q4 GEMM pack and the range reductions in binary32
    fl_in,          \* the call: MlasQ4GemmPackB of one column, or a range
                    \* reduction of [min, max]
    fl_pc,          \* "idle" or "done"
    fl_out          \* what the call stored

sz_vars == <<sz_packb, sz_meta, sz_qshape, sz_bufs, sz_call>>
q4_vars == <<q4_in, q4_pc, q4_n, q4_k, q4_FpData, q4_src, q4_dst_ptr, PackedBuf,
             PackedScale, q4_blobs, q4_elem, FpOut, q4_outWrites>>
bq_vars == <<bq_in, bq_data, bq_pc, bq_tile, bq_zp_bytes, bq_dst, bq_scales,
             bq_zero_points, bq_dstW, bq_scW, bq_zpW, bq_scR, bq_out, bq_outW>>
rr_vars == <<rr_in, rr_pc, rr_out>>
id_vars == <<id_in, id_data, id_packs, id_pc>>
qd_vars == <<qd_in, qd_data, qd_pc, qd_err, qd_tile, qd_dst, qd_scales,
             qd_zero_points, qd_dstW, qd_scW, qd_zpW, qd_dest>>
fl_vars == <<fl_in, fl_pc, fl_out>>
ext_vars == <<rr_vars, id_vars, qd_vars, fl_vars>>
vars == <<sz_vars, q4_vars, bq_vars, ext_vars>>

\* a float or byte that was never written
NoFloat == <<0, 0>>
NoByte == 0 - 1

\* the part of the state an operation family does not use
SzIdle ==
    /\ sz_packb = NoByte
    /\ sz_meta = <<NoByte, NoByte>>
    /\ sz_qshape = <<NoByte, NoByte>>
    /\ sz_bufs = <<NoByte, NoByte, NoByte>>
    /\ sz_call = [kind |-> "none"]

Q4Idle ==
    /\ q4_in = [kind |-> "none"]
    /\ q4_pc = "idle"
    /\ q4_n = 0 /\ q4_k = 0 /\ q4_FpData = 0 /\ q4_src = 0 /\ q4_dst_ptr = 0
    /\ PackedBuf = <<>> /\ PackedScale = <<>>
    /\ q4_blobs = <<>> /\ q4_elem = <<>> /\ FpOut = <<>> /\ q4_outWrites = {}

BqIdle ==
    /\ bq_in = [kind |-> "none"]
    /\ bq_data = [kind |-> "none"]
    /\ bq_pc = "unused"
    /\ bq_tile = <<>> /\ bq_zp_bytes = <<>>
    /\ bq_dst = <<>> /\ bq_scales = <<>> /\ bq_zero_points = <<>>
    /\ bq_dstW = <<>> /\ bq_scW = <<>> /\ bq_zpW = <<>>
    /\ bq_scR = <<>>
    /\ bq_out = <<>> /\ bq_outW = <<>>

RrIdle ==
    /\ rr_in = [kind |-> "none"]
    /\ rr_pc = "idle"
    /\ rr_out = [kind |-> "none"]

IdIdle ==
    /\ id_in = [kind |-> "none"]
    /\ id_data = [kind |-> "none"]
    /\ id_packs = <<>>
    /\ id_pc = "idle"

FlIdle ==
    /\ fl_in = [kind |-> "none"]
    /\ fl_pc = "idle"
    /\ fl_out = [kind |-> "none"]

QdIdle ==
    /\ qd_in = [kind |-> "none"]
    /\ qd_data = [kind |-> "none"]
    /\ qd_pc = "idle"
    /\ qd_err = "none"
    /\ qd_tile = <<>>
    /\ qd_dst = <<>> /\ qd_scales = <<>> /\ qd_zero_points = <<>>
    /\ qd_dstW = <<>> /\ qd_scW = <<>> /\ qd_zpW = <<>>
    /\ qd_dest = <<>>

(***************************************************************************)
(* The inputs the model draws.                                             *)
(***************************************************************************)
\* lengths of a ragged 32-element sub-stride: around 1, 16 and 32
SubTails == {1, 15, 16, 17, 31, 32}

\* K: whole blocks, whole 32-element sub-strides, and a tail
KChoices(T) ==
    {b * BlkLen(T) + s * 32 + u :
        b \in 0..MaxKBlocks, s \in 0..(BlkLen(T) \div 32 - 1), u \in SubTails}

\* the patterns source matrices are drawn from, and the padding of a row
\* (the leading dimension less the number of columns)
Seeds == {0, 1, 2, 3, 4}
LdPads == {0, 1}

\* an extent along the blocked axis: whole blocks and a tail
AxisChoices(B) ==
    {x \in {nb * B + t : nb \in 0..MaxBlocks, t \in {0, 1, 2, B - 1}} : x >= 1}

\* block sizes no switch of the dispatch layer has a case for
BadBlockSizes == {0, 8, 24, 512}

(***************************************************************************)
(* Buffers.                                                                *)
(***************************************************************************)
\* a caller's buffer of n bytes (or floats), nothing written yet
NewBuf(n, fill) == [o \in 0..(n - 1) |-> fill]

\* buf after the stores w (a function from index to value); a store outside
\* the buffer does not land in it
Store(buf, w) == [o \in DOMAIN buf |-> IF o \in DOMAIN w THEN w[o] ELSE buf[o]]

\* vi0 | (vi1 << 4), stored to a uint8_t; vi0 <= 15
PackNibblesSwapped(vi0, vi1) == (vi1 + 16 * vi0) % 256
PackNibbles(vi0, vi1) == (vi0 + 16 * vi1) % 256

\* vi & 0x0F and vi >> 4 of a byte
LowNibble(vi) == vi % 16
HighNibble(vi) == vi \div 16

(***************************************************************************)
(* MlasQ4GemmPackB.                                                        *)
(***************************************************************************)
\* (uint8_t)std::min(15.0f, std::max(0.0f, v0 + 8.5f))
SymNibble(v0) ==
    TruncU8(RMin(RInt(15), RMax(RZero, RAdd(v0, <<17, 2>>))))

\* (uint8_t)std::min(15.0f, std::max(0.0f, roundf(v0 * reciprocal_scale + zp)))
AsymNibble(v0, reciprocal_scale, zp) ==
    TruncU8(RMin(RInt(15),
            RMax(RZero, RInt(Roundf(RAdd(RMul(v0, reciprocal_scale), RInt(zp)))))))

\* the scan of the symmetric pack: the first value of the largest magnitude
\* (max stays 0.0f when every value is 0)
SymScanMax(seed, src, ldb, klen) ==
    LET v == [l \in 0..(klen - 1) |-> SrcInt(seed, src + ldb * l)]
        amax == SetMax({Abs(v[l]) : l \in 0..(klen - 1)})
        first == SetMin({l \in 0..(klen - 1) : Abs(v[l]) = amax})
    IN  IF amax = 0 THEN 0 ELSE v[first]

\* the scan of the asymmetric pack, then min = std::min(min, 0.0f) and
\* max = std::max(max, 0.0f): <<min, max>>
AsymScanRange(seed, src, ldb, klen) ==
    LET vals == {SrcInt(seed, src + ldb * l) : l \in 0..(klen - 1)}
    IN  << Min2(SetMin(vals), 0), Max2(SetMax(vals), 0) >>

\* scale = max / (-8) of the symmetric pack
Q4SymScale(max) == RStored(RDiv(max, RInt(0 - 8)))

\* scale = (max - min) / ((1 << 4) - 1) of the asymmetric pack
Q4AsymScale(min, max) ==
    LET diff == FltOverflow(RSub(max, min))
    IN  IF diff = RInf THEN RInf ELSE RStored(RDiv(diff, RInt(15)))

\* the zero point of the asymmetric pack, from min and scale
Q4ZeroPoint(min, scale) ==
    LET zero_point_fp == IF RIsZero(scale) THEN min
                         ELSE IF scale = RInf THEN RZero
                         ELSE RSub(RZero, RDiv(min, scale))
    IN  IF RLess(zero_point_fp, RZero) THEN 0
        ELSE IF RLess(RInt(15), zero_point_fp) THEN 15
        ELSE Roundf(zero_point_fp)

\* the sub-strides of a block of klen values: kk = 0, 32, ... < klen
SubStrides(klen) == {32 * i : i \in 0..((klen - 1) \div 32)}

\* data += 16, after every sub-stride
Q4DataAdvance == 16

\* the byte of the payload that data[l] is in sub-stride kk
Q4DataIndex(kk, l) == Q4DataAdvance * (kk \div 32) + l

\* the payload bytes one block stores, as a function from the offsets of
\* PackedBuf (the store of the last sub-stride that reaches an offset is the
\* one that stays); nibs[p] is the nibble of position p of the block, pad the
\* nibble of a position at or beyond klen
Q4Payload(T, dst_ptr, klen, nibs, pad) ==
    LET data == dst_ptr + MlasQ4BlkDataOff(T)
        first(kk) == data + Q4DataIndex(kk, 0)
        reach(o) == {kk \in SubStrides(klen) : first(kk) <= o /\ o <= first(kk) + 15}
        byte(kk, l) ==
            LET kklen == Min2(32, klen - kk)
                vi0 == IF l < kklen THEN nibs[kk + l] ELSE pad
                vi1 == IF l + 16 < kklen THEN nibs[kk + l + 16] ELSE pad
            IN  PackNibbles(vi0, vi1)
    IN  [o \in UNION {first(kk)..(first(kk) + 15) : kk \in SubStrides(klen)} |->
            LET kk == SetMax(reach(o)) IN byte(kk, o - first(kk))]

\* what pack used for the source elements src[ldb * p], p < klen, of one
\* block, added to the record elem of what it used so far
Quantized(elem, src, ldb, klen, nibs, scale, zp) ==
    [i \in DOMAIN elem |->
        IF i >= src /\ (i - src) % ldb = 0 /\ (i - src) \div ldb < klen
        THEN [q |-> nibs[(i - src) \div ldb], scale |-> scale, zp |-> zp]
        ELSE elem[i]]

\* a source element pack has not read
NotRead == [q |-> NoByte, scale |-> NoFloat, zp |-> NoByte]

PackAdvancePayloadOnly(T, klen) ==
    /\ q4_dst_ptr' = q4_dst_ptr + BlkLen(T) \div 2
    /\ IF q4_k + BlkLen(T) < q4_in.K
       THEN /\ q4_k' = q4_k + BlkLen(T)
            /\ q4_src' = q4_src + q4_in.ldb * klen
            /\ UNCHANGED <<q4_n, q4_FpData, q4_pc>>
       ELSE /\ q4_k' = 0
            /\ q4_n' = q4_n + 1
            /\ q4_FpData' = q4_FpData + 1
            /\ q4_src' = q4_FpData + 1
            /\ q4_pc' = IF q4_n + 1 < q4_in.N THEN "pack" ELSE "packed"

\* the loop control of both packs after one block: the next k of the column,
\* or the top of the next column
PackAdvance(T, klen) ==
    /\ q4_dst_ptr' = q4_dst_ptr + BlobSize(T)
    /\ IF q4_k + BlkLen(T) < q4_in.K
       THEN /\ q4_k' = q4_k + BlkLen(T)
            /\ q4_src' = q4_src + q4_in.ldb * klen
            /\ UNCHANGED <<q4_n, q4_FpData, q4_pc>>
       ELSE /\ q4_k' = 0
            /\ q4_n' = q4_n + 1
            /\ q4_FpData' = q4_FpData + 1
            /\ q4_src' = q4_FpData + 1
            /\ q4_pc' = IF q4_n + 1 < q4_in.N THEN "pack" ELSE "packed"

\* the caller sizes PackedBuf with MlasQ4GemmPackBSize
CallPackBSize ==
    /\ q4_pc = "idle"
    /\ sz_packb' = MlasQ4GemmPackBSize(q4_in.dispatch, q4_in.QType,
                                       q4_in.N, q4_in.K)
    /\ PackedBuf' = NewBuf(sz_packb', NoByte)
    /\ q4_pc' = "sized"
    /\ UNCHANGED <<sz_meta, sz_qshape, sz_bufs, sz_call, q4_in, q4_n, q4_k, q4_FpData,
                   q4_src, q4_dst_ptr, PackedScale, q4_blobs, q4_elem, FpOut,
                   q4_outWrites, bq_vars, ext_vars>>

\* MlasQ4GemmPackB up to the first block; a size of 0 for a non-empty matrix
\* tells the caller that the platform has no kernel, and it does not pack
PackBegin ==
    /\ q4_pc = "sized"
    /\ q4_in.dispatch
    /\ q4_n' = 0 /\ q4_k' = 0 /\ q4_FpData' = 0 /\ q4_src' = 0
    /\ q4_dst_ptr' = 0
    /\ q4_pc' = IF q4_in.N > 0 /\ q4_in.K > 0 THEN "pack" ELSE "packed"
    /\ q4_elem' = NewBuf(q4_in.ldb * q4_in.K, NotRead)
    /\ UNCHANGED <<sz_vars, q4_in, PackedBuf, PackedScale, q4_blobs,
                   FpOut, q4_outWrites, bq_vars, ext_vars>>

\* one block of MlasQ4GemmPackBImpl<T>, T in BLK0, BLK2, BLK4
PackBlockSym ==
    /\ q4_pc = "pack"
    /\ ~HasZeroPoint(Q4TypeOf(q4_in.QType))
    /\ \E max \in {SymScanMax(q4_in.seed, q4_src, q4_in.ldb,
                               Min2(BlkLen(Q4TypeOf(q4_in.QType)),
                                    q4_in.K - q4_k))} :
       LET T == Q4TypeOf(q4_in.QType)
           ldb == q4_in.ldb
           klen == Min2(BlkLen(T), q4_in.K - q4_k)
           scale == Q4SymScale(RInt(max))
           reciprocal_scale == Reciprocal(scale)
           nibs == [p \in 0..(klen - 1) |->
                      SymNibble(RMul(SrcAt(q4_in.seed, q4_src + ldb * p),
                                     reciprocal_scale))]
           payload == Q4Payload(T, q4_dst_ptr, klen, nibs, SymNibble(RZero))
           scaleAt == q4_dst_ptr + MlasQ4BlkScaleOff(T)
       IN  /\ PackedBuf' = Store(PackedBuf, payload)
           /\ PackedScale' = (scaleAt :> scale) @@ PackedScale
           /\ q4_blobs' = Append(q4_blobs,
                 [n |-> q4_n, kb |-> q4_k \div BlkLen(T), off |-> q4_dst_ptr,
                  bytes |-> (scaleAt..(scaleAt + 3)) \cup DOMAIN payload])
           /\ q4_elem' = Quantized(q4_elem, q4_src, ldb, klen, nibs, scale, 8)
           /\ PackAdvance(T, klen)
    /\ UNCHANGED <<sz_vars, q4_in, FpOut, q4_outWrites, bq_vars, ext_vars>>

\* one block of MlasQ4GemmPackBImpl<MLAS_Q4TYPE_BLK1>
PackBlockAsym ==
    /\ q4_pc = "pack"
    /\ HasZeroPoint(Q4TypeOf(q4_in.QType))
    /\ \E range \in {AsymScanRange(q4_in.seed, q4_src, q4_in.ldb,
                                    Min2(BlkLen(Q4TypeOf(q4_in.QType)),
                                         q4_in.K - q4_k))} :
       LET T == Q4TypeOf(q4_in.QType)
           ldb == q4_in.ldb
           klen == Min2(BlkLen(T), q4_in.K - q4_k)
           min == RInt(range[1])
           max == RInt(range[2])
           scale == Q4AsymScale(min, max)
           reciprocal_scale == Reciprocal(scale)
           zp == Q4ZeroPoint(min, scale)
           nibs == [p \in 0..(klen - 1) |->
                      AsymNibble(SrcAt(q4_in.seed, q4_src + ldb * p),
                                 reciprocal_scale, zp)]
           payload == Q4Payload(T, q4_dst_ptr, klen, nibs,
                                AsymNibble(RZero, reciprocal_scale, zp))
           scaleAt == q4_dst_ptr + MlasQ4BlkScaleOff(T)
           zpAt == q4_dst_ptr + MlasQ4BlkZeroPointOff(T)
       IN  /\ PackedBuf' = Store(PackedBuf, (zpAt :> zp) @@ payload)
           /\ PackedScale' = (scaleAt :> scale) @@ PackedScale
           /\ q4_blobs' = Append(q4_blobs,
                 [n |-> q4_n, kb |-> q4_k \div BlkLen(T), off |-> q4_dst_ptr,
                  bytes |-> (scaleAt..(scaleAt + 3)) \cup {zpAt}
                              \cup DOMAIN payload])
           /\ q4_elem' = Quantized(q4_elem, q4_src, ldb, klen, nibs, scale, zp)
           /\ PackAdvance(T, klen)
    /\ UNCHANGED <<sz_vars, q4_in, FpOut, q4_outWrites, bq_vars, ext_vars>>

(***************************************************************************)
(* MlasQ4GemmUnPackB.                                                      *)
(***************************************************************************)
UnpackDestNoColumn(ldb, k, n) == ldb * k
\* dest = FpData + ldb * k + n, as an index of FpData
UnpackDest(ldb, k, n) == ldb * k + n

\* the stores of one block of unpack, as a function from the indices of
\* FpData; the float of a nibble vi is (vi - zp) * scale.  Position pos of the block is
\* stored to dest[ldb * pos], from the low nibble of data[l] when
\* pos = kk + l (l < kklen) and from the high nibble when pos = kk + l + 16
\* (l + 16 < kklen).
Q4UnpackStores(T, src, ldb, k, n, CountK, scale, zp) ==
    LET deq(v) == RStored(RMul(RInt(v - zp), scale))
        data == src + MlasQ4BlkDataOff(T)
        dest == UnpackDest(ldb, k, n)
        vi(kk, l) == PackedBuf[data + Q4DataIndex(kk, l)]
        val(pos) ==
            LET kk == 32 * (pos \div 32)
                l == pos % 16
            IN  IF pos % 32 < 16 THEN deq(LowNibble(vi(kk, l)))
                                 ELSE deq(HighNibble(vi(kk, l)))
    IN  [i \in {dest + ldb * pos : pos \in 0..(CountK - 1)} |->
            val((i - dest) \div ldb)]

\* MlasQ4GemmUnPackB up to the first block, on the FpData of the caller
UnpackBegin ==
    /\ q4_pc = "packed"
    /\ FpOut' = NewBuf(q4_in.ldb * q4_in.K, NoFloat)
    /\ q4_outWrites' = {}
    /\ q4_n' = 0 /\ q4_k' = 0 /\ q4_src' = 0
    /\ q4_pc' = IF q4_in.N > 0 /\ q4_in.K > 0 THEN "unpack" ELSE "done"
    /\ UNCHANGED <<sz_vars, q4_in, q4_FpData, q4_dst_ptr, PackedBuf,
                   PackedScale, q4_blobs, q4_elem, bq_vars, ext_vars>>

\* the loop control of both unpacks after one block
UnpackAdvance(T) ==
    /\ q4_src' = q4_src + BlobSize(T)
    /\ IF q4_k + BlkLen(T) < q4_in.K
       THEN /\ q4_k' = q4_k + BlkLen(T)
            /\ UNCHANGED <<q4_n, q4_pc>>
       ELSE /\ q4_k' = 0
            /\ q4_n' = q4_n + 1
            /\ q4_pc' = IF q4_n + 1 < q4_in.N THEN "unpack" ELSE "done"

\* one block of MlasQ4GemmUnPackBImpl<T>, T in BLK0, BLK2, BLK4
UnpackBlockSym ==
    /\ q4_pc = "unpack"
    /\ ~HasZeroPoint(Q4TypeOf(q4_in.QType))
    /\ LET T == Q4TypeOf(q4_in.QType)
           CountK == Min2(q4_in.K - q4_k, BlkLen(T))
           scale == PackedScale[q4_src + MlasQ4BlkScaleOff(T)]
           stores == Q4UnpackStores(T, q4_src, q4_in.ldb, q4_k, q4_n, CountK,
                                    scale, 8)
       IN  /\ FpOut' = Store(FpOut, stores)
           /\ q4_outWrites' = q4_outWrites \cup DOMAIN stores
           /\ UnpackAdvance(T)
    /\ UNCHANGED <<sz_vars, q4_in, q4_FpData, q4_dst_ptr, PackedBuf,
                   PackedScale, q4_blobs, q4_elem, bq_vars, ext_vars>>

\* one block of MlasQ4GemmUnPackBImpl<MLAS_Q4TYPE_BLK1>
UnpackBlockAsym ==
    /\ q4_pc = "unpack"
    /\ HasZeroPoint(Q4TypeOf(q4_in.QType))
    /\ LET T == Q4TypeOf(q4_in.QType)
           CountK == Min2(q4_in.K - q4_k, BlkLen(T))
           s == PackedScale[q4_src + MlasQ4BlkScaleOff(T)]
           z == PackedBuf[q4_src + MlasQ4BlkZeroPointOff(T)]
           stores == Q4UnpackStores(T, q4_src, q4_in.ldb, q4_k, q4_n, CountK,
                                    s, z)
       IN  /\ FpOut' = Store(FpOut, stores)
           /\ q4_outWrites' = q4_outWrites \cup DOMAIN stores
           /\ UnpackAdvance(T)
    /\ UNCHANGED <<sz_vars, q4_in, q4_FpData, q4_dst_ptr, PackedBuf,
                   PackedScale, q4_blobs, q4_elem, bq_vars, ext_vars>>

(***************************************************************************)
(* The Q4 GEMM family: a caller sizes the buffer, packs a matrix and       *)
(* unpacks it again.                                                       *)
(***************************************************************************)
Q4Inputs ==
    UNION {
      {[QType |-> qt, dispatch |-> d, N |-> n, K |-> k, ldb |-> n + pad,
        seed |-> sd] :
          d \in BOOLEAN, n \in 1..MaxN, pad \in LdPads,
          k \in KChoices(Q4TypeOf(qt)), sd \in Seeds} : qt \in QTypes}

InitQ4 ==
    /\ q4_in \in Q4Inputs
    /\ q4_pc = "idle"
    /\ q4_n = 0 /\ q4_k = 0 /\ q4_FpData = 0 /\ q4_src = 0 /\ q4_dst_ptr = 0
    /\ PackedBuf = <<>> /\ PackedScale = <<>>
    /\ q4_blobs = <<>> /\ q4_elem = <<>> /\ FpOut = <<>> /\ q4_outWrites = {}
    /\ SzIdle
    /\ BqIdle
    /\ RrIdle
    /\ IdIdle
    /\ QdIdle
    /\ FlIdle

NextQ4 ==
    \/ CallPackBSize
    \/ PackBegin
    \/ PackBlockSym
    \/ PackBlockAsym
    \/ UnpackBegin
    \/ UnpackBlockSym
    \/ UnpackBlockAsym

SpecQ4 == InitQ4 /\ [][NextQ4]_vars

(***************************************************************************)
(* BlockwiseQuantizer<T, block_size, 4, Columnwise>::quantizeAndTranspose. *)
(* in is [block_size, cw, rows, columns]; data is [seed, ld, hasZp].       *)
(***************************************************************************)
\* the thread partitioning
thrd_row_blks(in) ==
    (in.rows + ThreadBlkRow(in.block_size, in.cw) - 1)
        \div ThreadBlkRow(in.block_size, in.cw)
thrd_col_blks(in) ==
    (in.columns + ThreadBlkCol(in.block_size, in.cw) - 1)
        \div ThreadBlkCol(in.block_size, in.cw)
total_thrd_blks(in) == thrd_row_blks(in) * thrd_col_blks(in)
row_blks(in) ==
    (in.rows + QuantBlkRow(in.block_size, in.cw) - 1)
        \div QuantBlkRow(in.block_size, in.cw)

\* the tile of block_idx: r, c, r_end, c_end, meta_row, meta_col
Tile(in, block_idx) ==
    LET r == (block_idx \div thrd_col_blks(in)) * ThreadBlkRow(in.block_size, in.cw)
        c == (block_idx % thrd_col_blks(in)) * ThreadBlkCol(in.block_size, in.cw)
    IN  [r |-> r,
         c |-> c,
         r_end |-> Min2(r + ThreadBlkRow(in.block_size, in.cw), in.rows),
         c_end |-> Min2(c + ThreadBlkCol(in.block_size, in.cw), in.columns),
         meta_row |-> r \div QuantBlkRow(in.block_size, in.cw),
         meta_col |-> c \div QuantBlkCol(in.block_size, in.cw)]

\* the scan of a single block: <<min, max>> of src[i * leadingDimension + j]
BlockRange(data, row_start, row_end, c, c_end) ==
    CHOOSE mm \in
        {<<RSetMin(v), RSetMax(v)>> :
            v \in {{Src(data, i * data.ld + j) :
                       i \in row_start..(row_end - 1), j \in c..(c_end - 1)}}} :
        TRUE

\* zp = roundf(-min / scale) of the scanned range itself
range2scalezpUnrectified(qbits, min, max) ==
    LET scale_f == RDiv(RSub(max, min), RInt(kMax(qbits)))
    IN  [scale |-> RStored(scale_f),
         zp |-> IF RIsZero(scale_f) THEN 0
                ELSE Roundf(RSub(RZero, RDiv(min, scale_f)))]
\* range2scalezp<ScaleT, qbits>: [scale, zp]
range2scalezp(qbits, min, max) ==
    LET mn == RMin(min, RZero)
        mx == RMax(max, RZero)
        diff == FltOverflow(RStored(RSub(mx, mn)))
        scale_f == IF diff = RInf THEN RInf
                   ELSE RStored(RDiv(diff, RInt(kMax(qbits))))
        zero_point_fp == IF RIsZero(scale_f) THEN mn
                         ELSE IF scale_f = RInf THEN RZero
                         ELSE RStored(RSub(RZero, RDiv(mn, scale_f)))
    IN  [scale |-> RStored(scale_f),
         zp |-> IF RLess(zero_point_fp, RZero) THEN 0
                ELSE IF RLess(RInt(kMax(qbits)), zero_point_fp)
                THEN kMax(qbits)
                ELSE Roundf(zero_point_fp)]

\* max on a tie of the magnitudes
range2scaleTieMax(qbits, min, max) ==
    LET m == IF RLess(RAbs(max), RAbs(min)) THEN min ELSE max
    IN  RStored(RDiv(m, RInt(0 - kMid(qbits))))
\* scale = max(|min|, |max|) / mid_v
range2scaleUnsigned(qbits, min, max) ==
    RStored(RDiv(RMax(RAbs(min), RAbs(max)), RInt(kMid(qbits))))
\* range2scale<ScaleT, qbits>: the scale
range2scale(qbits, min, max) ==
    LET m == IF RLess(RAbs(min), RAbs(max)) THEN max ELSE min
    IN  RStored(RDiv(m, RInt(0 - kMid(qbits))))

\* the index of the scale of a block, and of the byte of its zero point
ScaleIndexNoKpack(meta_col, blks, meta_row, kpack) == meta_col * blks + meta_row
ScaleIndex(meta_col, blks, meta_row, kpack) == meta_col * blks + meta_row + kpack
ZeroPointIndexNoColumn(meta_col, blks, meta_row) == meta_row \div 2
ZeroPointIndex(meta_col, blks, meta_row) ==
    meta_col * ((blks + 1) \div 2) + meta_row \div 2

\* one kpack of "compute scale and zero point": whether the block has a row,
\* and the scale and zp_bytes[kpack] it gets (zp_bytes[kpack] stays 8 when
\* zero_points is null)
ScanBlock(in, data, tile, kpack) ==
    LET row_start == tile.r + kpack * QuantBlkRow(in.block_size, in.cw)
        row_end == Min2(row_start + QuantBlkRow(in.block_size, in.cw), tile.r_end)
    IN  IF row_start < row_end
        THEN CHOOSE p \in
                {IF data.hasZp
                 THEN [stored |-> TRUE,
                       scale |-> range2scalezp(4, mm[1], mm[2]).scale,
                       zp |-> range2scalezp(4, mm[1], mm[2]).zp]
                 ELSE [stored |-> TRUE,
                       scale |-> range2scale(4, mm[1], mm[2]),
                       zp |-> 8] :
                    mm \in {BlockRange(data, row_start, row_end,
                                       tile.c, tile.c_end)}} : TRUE
        ELSE [stored |-> FALSE, scale |-> NoFloat, zp |-> 8]

PackZeroPointsSwapped(zp0, zp1) == ((zp1 % 16) + 16 * zp0) % 256
\* (zp_bytes[0] & 0xf) | (zp_bytes[1] << 4), stored to a uint8_t
PackZeroPoints(zp0, zp1) == ((zp0 % 16) + 16 * zp1) % 256

\* the first half of the body of tile block_idx: the stores to scales and to
\* zero_points, in order, and the zp_bytes it leaves
Scan(in, data, block_idx) ==
    CHOOSE s \in
        {[scW |-> SelectSeq(
                    <<[on |-> b0.stored,
                       idx |-> ScaleIndex(tile.meta_col, row_blks(in),
                                          tile.meta_row, 0),
                       val |-> b0.scale],
                      [on |-> b1.stored,
                       idx |-> ScaleIndex(tile.meta_col, row_blks(in),
                                          tile.meta_row, 1),
                       val |-> b1.scale]>>,
                    LAMBDA w : w.on),
          zp_bytes |-> <<b0.zp, b1.zp>>,
          zpW |-> IF data.hasZp
                  THEN <<[on |-> TRUE,
                          idx |-> ZeroPointIndex(tile.meta_col, row_blks(in),
                                                 tile.meta_row),
                          val |-> PackZeroPoints(b0.zp, b1.zp)]>>
                  ELSE <<>>] :
            tile \in {Tile(in, block_idx)},
            b0 \in {ScanBlock(in, data, Tile(in, block_idx), 0)},
            b1 \in {ScanBlock(in, data, Tile(in, block_idx), 1)}} : TRUE

\* buf after the stores ws (records with idx and val), in order; a store
\* outside the buffer does not land in it
StoreSeq(buf, ws) ==
    [o \in DOMAIN buf |->
        IF \E n \in 1..Len(ws) : ws[n].idx = o
        THEN ws[SetMax({n \in 1..Len(ws) : ws[n].idx = o})].val
        ELSE buf[o]]

\* buf (of size entries) after the stores buf[idx[n]] = vals[n],
\* n = lo..hi, in that order; a store outside the buffer does not land in it
RECURSIVE StoreRange(_, _, _, _, _, _)
StoreRange(buf, size, idx, vals, lo, hi) ==
    IF lo > hi THEN buf
    ELSE IF lo = hi
    THEN IF idx[lo] \in 0..(size - 1)
         THEN [buf EXCEPT ![idx[lo]] = vals[lo]]
         ELSE buf
    ELSE CHOOSE r \in
            {StoreRange(left, size, idx, vals, (lo + hi) \div 2 + 1, hi) :
                left \in {StoreRange(buf, size, idx, vals, lo,
                                     (lo + hi) \div 2)}} : TRUE

\* the second half of the body of a tile: for (j = c; j < c_end; ++j)
\* for (i = r; i < r_end; i += 2); iteration n (from 1) has the j and i
\* the pairs of rows only: for (i = r; i + 1 < r_end; i += 2)
EmitRowsWhole(tile) == (tile.r_end - tile.r) \div 2
EmitRows(tile) == (tile.r_end - tile.r + 1) \div 2
EmitCount(tile) == (tile.c_end - tile.c) * EmitRows(tile)
EmitJ(tile, n) == tile.c + (n - 1) \div EmitRows(tile)
EmitI(tile, n) == tile.r + 2 * ((n - 1) % EmitRows(tile))

\* the index of dst an iteration stores to, and of the scale it reads
DstIndexUnpacked(j, q_rows, i) == j * q_rows + i
DstIndex(j, q_rows, i) == j * q_rows + i \div 2
EmitScaleIndexFirst(meta_c, blks, meta_r) == 0
EmitScaleIndex(meta_c, blks, meta_r) == meta_c * blks + meta_r

QuantNibbleTruncated(v, reciprocal_scale, zp) ==
    Max2(0, Min2(kMax(4),
                 RFloor(RAdd(RStored(RMul(v, reciprocal_scale)), RInt(zp)))))
\* (uint8_t)std::clamp(roundf(v * reciprocal_scale + zp), 0.0f, 15.0f)
QuantNibble(v, reciprocal_scale, zp) ==
    Max2(0, Min2(kMax(4),
                 Roundf(RAdd(RStored(RMul(v, reciprocal_scale)), RInt(zp)))))

\* (vi0 & 0xf) | (vi1 << 4), stored to a uint8_t
PackNibblesMasked(vi0, vi1) == ((vi0 % 16) + 16 * vi1) % 256

\* the byte iteration (j, i) stores
EmitByte(in, data, scales, zp_bytes, tile, j, i) ==
    LET QR == QuantBlkRow(in.block_size, in.cw)
        meta_c == j \div QuantBlkCol(in.block_size, in.cw)
        meta_r == i \div QR
        scale == scales[EmitScaleIndex(meta_c, row_blks(in), meta_r)]
        zp == zp_bytes[(meta_r % 2) + 1]
        zp1 == zp_bytes[(((i + 1) \div QR) % 2) + 1]
        vi0 == QuantNibble(Src(data, i * data.ld + j),
                           Reciprocal(scale), zp)
        vi1 == IF i + 1 < tile.r_end
               THEN QuantNibble(
                        Src(data, (i + 1) * data.ld + j),
                        IF QR = 1
                        THEN Reciprocal(scales[EmitScaleIndex(
                                           meta_c, row_blks(in), meta_r + 1)])
                        ELSE Reciprocal(scale),
                        zp1)
               ELSE zp
    IN  PackNibblesMasked(vi0, vi1)

\* the indices of dst the tile stores to, in order
EmitIdx(in, tile) ==
    [n \in 1..EmitCount(tile) |->
        DstIndex(EmitJ(tile, n),
                 quantizedShape(in.block_size, in.cw, in.rows, in.columns)[1],
                 EmitI(tile, n))]

\* the indices of scales the tile reads
EmitReads(in, tile) ==
    LET QR == QuantBlkRow(in.block_size, in.cw)
        QC == QuantBlkCol(in.block_size, in.cw)
    IN  {EmitScaleIndex(EmitJ(tile, n) \div QC, row_blks(in),
                        EmitI(tile, n) \div QR) : n \in 1..EmitCount(tile)}
        \cup
        {EmitScaleIndex(EmitJ(tile, n) \div QC, row_blks(in),
                        EmitI(tile, n) \div QR + 1) :
            n \in {m \in 1..EmitCount(tile) :
                      QR = 1 /\ EmitI(tile, m) + 1 < tile.r_end}}

\* dst after the second half of the body of the tile
Emit(in, data, tile, dst, scales, zp_bytes) ==
    StoreRange(dst,
               quantizedBufferSizes(in.block_size, in.cw, in.rows, in.columns,
                                    FALSE)[1],
               EmitIdx(in, tile),
               [n \in 1..EmitCount(tile) |->
                   EmitByte(in, data, scales, zp_bytes, tile,
                            EmitJ(tile, n), EmitI(tile, n))],
               1, EmitCount(tile))

\* the whole body of tile block_idx on the memory mem = [dst, scales,
\* zero_points]
AfterScan(mem, s) ==
    [dst |-> mem.dst,
     scales |-> StoreSeq(mem.scales, s.scW),
     zero_points |-> StoreSeq(mem.zero_points, s.zpW),
     zp_bytes |-> s.zp_bytes]
AfterEmit(in, data, m, block_idx) ==
    [dst |-> Emit(in, data, Tile(in, block_idx), m.dst, m.scales, m.zp_bytes),
     scales |-> m.scales,
     zero_points |-> m.zero_points]
QuantizeTile(in, data, mem, block_idx) ==
    CHOOSE r \in
        {AfterEmit(in, data, m, block_idx) :
            m \in {AfterScan(mem, s) : s \in {Scan(in, data, block_idx)}}} :
        TRUE

(***************************************************************************)
(* BlockwiseQuantizer<T, block_size, 4, Columnwise>::dequantize.           *)
(***************************************************************************)
\* the body of a tile stores element (i, j) of every column j of the tile and
\* every row i of it; store n (from 1) has the j and i
DeqCount(tile) == (tile.c_end - tile.c) * (tile.r_end - tile.r)
DeqJ(tile, n) == tile.c + (n - 1) \div (tile.r_end - tile.r)
DeqI(tile, n) == tile.r + ((n - 1) % (tile.r_end - tile.r))

DeqIndexNoColumn(j, rows, i) == i
DeqIndex(j, rows, i) == j * rows + i

ZpPairNoDefault(hasZp, zero_points, idx) ==
    IF hasZp THEN zero_points[idx] ELSE 0
\* zp_pair = (zero_points == nullptr) ? 0x88 : zero_points[idx]
ZpPair(hasZp, zero_points, idx) ==
    IF hasZp THEN zero_points[idx] ELSE 136

DeqZeroPointLow(zp_pair, meta_row) == zp_pair % 16
\* zp0 = (meta_row & 1) ? (zp_pair >> 4) : (zp_pair & 0xf)
DeqZeroPoint(zp_pair, meta_row) ==
    IF meta_row % 2 = 1 THEN zp_pair \div 16 ELSE zp_pair % 16

\* the value stored for (i, j): v0 of the iteration of i when i is its first
\* row, v1 of the iteration of i - 1 otherwise
DeqValue(in, hasZp, weights, scales, zero_points, tile, j, i) ==
    LET QR == QuantBlkRow(in.block_size, in.cw)
        first == i - ((i - tile.r) % 2)
        meta_col == j \div QuantBlkCol(in.block_size, in.cw)
        meta_row == first \div QR
        scale0 == scales[meta_col * row_blks(in) + meta_row]
        zp_pair == ZpPair(hasZp, zero_points,
                          meta_col * ((row_blks(in) + 1) \div 2)
                           + meta_row \div 2)
        zp0 == DeqZeroPoint(zp_pair, meta_row)
        byte == weights[j * quantizedShape(in.block_size, in.cw, in.rows,
                                           in.columns)[1] + first \div 2]
    IN  IF i = first
        THEN FltMul(RInt(LowNibble(byte) - zp0), scale0)
        ELSE FltMul(
                 RInt(HighNibble(byte)
                      - (IF QR = 1 THEN (zp_pair \div 16) % 16 ELSE zp0)),
                 IF QR = 1
                 THEN scales[meta_col * row_blks(in) + meta_row + 1]
                 ELSE scale0)

DeqIdx(in, tile) ==
    [n \in 1..DeqCount(tile) |-> DeqIndex(DeqJ(tile, n), in.rows, DeqI(tile, n))]

\* the dequantized matrix after the body of the tile
Dequantize(in, hasZp, tile, out, weights, scales, zero_points) ==
    StoreRange(out,
               in.rows * in.columns,
               DeqIdx(in, tile),
               [n \in 1..DeqCount(tile) |->
                   DeqValue(in, hasZp, weights, scales, zero_points, tile,
                            DeqJ(tile, n), DeqI(tile, n))],
               1, DeqCount(tile))

(***************************************************************************)
(* The blockwise operations: the caller asks the three size helpers, then  *)
(* calls MlasQuantizeBlockwise and MlasDequantizeBlockwise.  The bodies of *)
(* the tiles are the tasks MlasTryBatchParallel runs, in any order; the    *)
(* two halves of a quantize tile are separate steps.                       *)
(***************************************************************************)
\* qbits a caller passes to MlasBlockwiseQuantizedBufferSizes
QBits == {2, 4, 8}

BqInputs ==
    UNION {
      {[block_size |-> B, cw |-> cw,
        rows |-> IF cw THEN blocked ELSE cross,
        columns |-> IF cw THEN cross ELSE blocked] :
          cw \in BOOLEAN, blocked \in AxisChoices(B), cross \in 1..MaxCross} :
      B \in BlockSizes \cup BadBlockSizes}

CallMetaShape ==
    /\ bq_pc = "idle"
    /\ sz_meta' = MlasBlockwiseQuantMetaShape(bq_in.block_size, bq_in.cw,
                                              bq_in.rows, bq_in.columns)
    /\ bq_pc' = "meta"
    /\ UNCHANGED <<sz_packb, sz_qshape, sz_bufs, sz_call, q4_vars, ext_vars, bq_in,
                   bq_data, bq_tile, bq_zp_bytes, bq_dst, bq_scales,
                   bq_zero_points, bq_dstW, bq_scW, bq_zpW, bq_scR, bq_out,
                   bq_outW>>

CallQuantizedShape ==
    /\ bq_pc = "meta"
    /\ sz_qshape' = MlasBlockwiseQuantizedShape(bq_in.block_size, bq_in.cw,
                                                bq_in.rows, bq_in.columns)
    /\ bq_pc' = "qshape"
    /\ UNCHANGED <<sz_packb, sz_meta, sz_bufs, sz_call, q4_vars, ext_vars, bq_in,
                   bq_data, bq_tile, bq_zp_bytes, bq_dst, bq_scales,
                   bq_zero_points, bq_dstW, bq_scW, bq_zpW, bq_scR, bq_out,
                   bq_outW>>

CallBufferSizes ==
    /\ bq_pc = "qshape"
    /\ \E qbits \in QBits, wantZp \in BOOLEAN :
          /\ sz_call' = [qbits |-> qbits, wantZp |-> wantZp]
          /\ sz_bufs' = MlasBlockwiseQuantizedBufferSizes(
                            qbits, bq_in.block_size, bq_in.cw, bq_in.rows,
                            bq_in.columns, wantZp)
    /\ bq_pc' = "sized"
    /\ UNCHANGED <<sz_packb, sz_meta, sz_qshape, q4_vars, ext_vars, bq_in,
                   bq_data, bq_tile, bq_zp_bytes, bq_dst, bq_scales,
                   bq_zero_points, bq_dstW, bq_scW, bq_zpW, bq_scR, bq_out,
                   bq_outW>>

\* the tiles MlasQuantizeBlockwise and MlasDequantizeBlockwise run: those of
\* the quantizer the switch selects, none in the default case
DispatchTiles(in) ==
    IF in.block_size \in BlockSizes THEN total_thrd_blks(in) ELSE 0

\* the length of a buffer a size helper gave n for; a caller that did not
\* check a size of 0 passes a buffer of rows * columns entries
CallerBuffer(in, n) ==
    IF in.block_size \in BlockSizes THEN n ELSE in.rows * in.columns

\* MlasQuantizeBlockwise<float, 4> up to the start of the tiles
QuantizeBegin ==
    /\ bq_pc = "sized"
    /\ sz_call.qbits = 4
    /\ bq_in.rows * bq_in.columns <= MaxElements
    /\ DispatchTiles(bq_in) <= MaxTiles
    /\ \E seed \in Seeds, pad \in LdPads :
          bq_data' = [seed |-> seed, ld |-> bq_in.columns + pad,
                      hasZp |-> sz_call.wantZp]
    /\ bq_dst' = NewBuf(CallerBuffer(bq_in, sz_bufs[1]), NoByte)
    /\ bq_scales' = NewBuf(CallerBuffer(bq_in, sz_bufs[2]), NoFloat)
    /\ bq_zero_points' = IF sz_call.wantZp
                         THEN NewBuf(CallerBuffer(bq_in, sz_bufs[3]), NoByte)
                         ELSE <<>>
    /\ bq_tile' = [t \in 0..(DispatchTiles(bq_in) - 1) |-> "scan"]
    /\ bq_zp_bytes' = [t \in 0..(DispatchTiles(bq_in) - 1) |-> <<8, 8>>]
    /\ bq_dstW' = [t \in 0..(DispatchTiles(bq_in) - 1) |-> <<>>]
    /\ bq_scW' = [t \in 0..(DispatchTiles(bq_in) - 1) |-> <<>>]
    /\ bq_zpW' = [t \in 0..(DispatchTiles(bq_in) - 1) |-> <<>>]
    /\ bq_scR' = [t \in 0..(DispatchTiles(bq_in) - 1) |-> {}]
    /\ bq_pc' = "quant"
    /\ UNCHANGED <<sz_vars, q4_vars, ext_vars, bq_in, bq_out, bq_outW>>

\* the indices a sequence of stores goes to, in order
StoreIdx(ws) == [n \in 1..Len(ws) |-> ws[n].idx]

\* lines 477 - 523 of the body of tile t
TileScan(t) ==
    /\ bq_pc = "quant"
    /\ bq_tile[t] = "scan"
    /\ \E s \in {Scan(bq_in, bq_data, t)} :
          /\ bq_scales' = StoreSeq(bq_scales, s.scW)
          /\ bq_zero_points' = StoreSeq(bq_zero_points, s.zpW)
          /\ bq_zp_bytes' = [bq_zp_bytes EXCEPT ![t] = s.zp_bytes]
          /\ bq_scW' = [bq_scW EXCEPT ![t] = StoreIdx(s.scW)]
          /\ bq_zpW' = [bq_zpW EXCEPT ![t] = StoreIdx(s.zpW)]
    /\ bq_tile' = [bq_tile EXCEPT ![t] = "emit"]
    /\ UNCHANGED <<sz_vars, q4_vars, ext_vars, bq_in, bq_data, bq_pc, bq_dst, bq_dstW,
                   bq_scR, bq_out, bq_outW>>

\* lines 525 - 554 of the body of tile t
TileEmit(t) ==
    /\ bq_pc = "quant"
    /\ bq_tile[t] = "emit"
    /\ \E tile \in {Tile(bq_in, t)} :
          /\ bq_dst' = Emit(bq_in, bq_data, tile, bq_dst, bq_scales,
                            bq_zp_bytes[t])
          /\ bq_dstW' = [bq_dstW EXCEPT ![t] = EmitIdx(bq_in, tile)]
          /\ bq_scR' = [bq_scR EXCEPT ![t] = EmitReads(bq_in, tile)]
    /\ bq_tile' = [bq_tile EXCEPT ![t] = "done"]
    /\ UNCHANGED <<sz_vars, q4_vars, ext_vars, bq_in, bq_data, bq_pc, bq_zp_bytes,
                   bq_scales, bq_zero_points, bq_scW, bq_zpW, bq_out, bq_outW>>

\* MlasTryBatchParallel returns when every task has run
QuantizeEnd ==
    /\ bq_pc = "quant"
    /\ \A t \in DOMAIN bq_tile : bq_tile[t] = "done"
    /\ bq_pc' = "quantized"
    /\ UNCHANGED <<sz_vars, q4_vars, ext_vars, bq_in, bq_data, bq_tile, bq_zp_bytes,
                   bq_dst, bq_scales, bq_zero_points, bq_dstW, bq_scW, bq_zpW,
                   bq_scR, bq_out, bq_outW>>

\* MlasDequantizeBlockwise<float, 4> of what was quantized, up to the start
\* of the tiles
DequantizeBegin ==
    /\ bq_pc = "quantized"
    /\ bq_out' = NewBuf(bq_in.rows * bq_in.columns, NoFloat)
    /\ bq_tile' = [t \in 0..(DispatchTiles(bq_in) - 1) |-> "deq"]
    /\ bq_outW' = [t \in 0..(DispatchTiles(bq_in) - 1) |-> <<>>]
    /\ bq_pc' = "dequant"
    /\ UNCHANGED <<sz_vars, q4_vars, ext_vars, bq_in, bq_data, bq_zp_bytes, bq_dst,
                   bq_scales, bq_zero_points, bq_dstW, bq_scW, bq_zpW, bq_scR>>

\* the body of tile t of dequantize
TileDequantize(t) ==
    /\ bq_pc = "dequant"
    /\ bq_tile[t] = "deq"
    /\ \E tile \in {Tile(bq_in, t)} :
          /\ bq_out' = Dequantize(bq_in, bq_data.hasZp, tile, bq_out, bq_dst,
                                  bq_scales, bq_zero_points)
          /\ bq_outW' = [bq_outW EXCEPT ![t] = DeqIdx(bq_in, tile)]
    /\ bq_tile' = [bq_tile EXCEPT ![t] = "done"]
    /\ UNCHANGED <<sz_vars, q4_vars, ext_vars, bq_in, bq_data, bq_pc, bq_zp_bytes,
                   bq_dst, bq_scales, bq_zero_points, bq_dstW, bq_scW, bq_zpW,
                   bq_scR>>

DequantizeEnd ==
    /\ bq_pc = "dequant"
    /\ \A t \in DOMAIN bq_tile : bq_tile[t] = "done"
    /\ bq_pc' = "done"
    /\ UNCHANGED <<sz_vars, q4_vars, ext_vars, bq_in, bq_data, bq_tile, bq_zp_bytes,
                   bq_dst, bq_scales, bq_zero_points, bq_dstW, bq_scW, bq_zpW,
                   bq_scR, bq_out, bq_outW>>

InitBlk ==
    /\ bq_in \in BqInputs
    /\ bq_data = [kind |-> "none"]
    /\ bq_pc = "idle"
    /\ bq_tile = <<>> /\ bq_zp_bytes = <<>>
    /\ bq_dst = <<>> /\ bq_scales = <<>> /\ bq_zero_points = <<>>
    /\ bq_dstW = <<>> /\ bq_scW = <<>> /\ bq_zpW = <<>>
    /\ bq_scR = <<>>
    /\ bq_out = <<>> /\ bq_outW = <<>>
    /\ SzIdle
    /\ Q4Idle
    /\ RrIdle
    /\ IdIdle
    /\ QdIdle
    /\ FlIdle

NextBlk ==
    \/ CallMetaShape
    \/ CallQuantizedShape
    \/ CallBufferSizes
    \/ QuantizeBegin
    \/ \E t \in DOMAIN bq_tile : TileScan(t)
    \/ \E t \in DOMAIN bq_tile : TileEmit(t)
    \/ QuantizeEnd
    \/ DequantizeBegin
    \/ \E t \in DOMAIN bq_tile : TileDequantize(t)
    \/ DequantizeEnd

SpecBlk == InitBlk /\ [][NextBlk]_vars

(***************************************************************************)
(* Range reduction as a function of the scanned range: range2scalezp and   *)
(* range2scale for the qbits the quantizers instantiate them with, and the *)
(* scale and zero point computations of the two Q4 GEMM packs.             *)
(***************************************************************************)
\* the values a scan can find: small fractions of both signs, and the
\* largest finite floats
RangeVals ==
    {RNorm(n, d) : n \in (0 - MaxRange)..MaxRange, d \in {1, 3}}
        \cup {RInt(FltMax), RInt(0 - FltMax)}

RrInputs ==
    {r \in [min : RangeVals, max : RangeVals] : ~RLess(r.max, r.min)}

\* the max the scan of the symmetric pack can leave for a block with this
\* range: the value of the largest magnitude, the first one on a tie
SymScanResults(min, max) ==
    IF RLess(RAbs(min), RAbs(max)) THEN {max}
    ELSE IF RLess(RAbs(max), RAbs(min)) THEN {min}
    ELSE {min, max}

\* qbits of the instantiations of range2scalezp and range2scale
RangeQBits == {2, 4}

ApplyRange2ScaleZp ==
    /\ rr_pc = "idle"
    /\ \E qbits \in RangeQBits :
          rr_out' = [fn |-> "range2scalezp", qbits |-> qbits,
                     scale |-> range2scalezp(qbits, rr_in.min, rr_in.max).scale,
                     zp |-> range2scalezp(qbits, rr_in.min, rr_in.max).zp]
    /\ rr_pc' = "done"
    /\ UNCHANGED <<sz_vars, q4_vars, bq_vars, fl_vars, id_vars, qd_vars, rr_in>>

ApplyRange2Scale ==
    /\ rr_pc = "idle"
    /\ \E qbits \in RangeQBits :
          rr_out' = [fn |-> "range2scale", qbits |-> qbits,
                     scale |-> range2scale(qbits, rr_in.min, rr_in.max),
                     zp |-> NoByte]
    /\ rr_pc' = "done"
    /\ UNCHANGED <<sz_vars, q4_vars, bq_vars, fl_vars, id_vars, qd_vars, rr_in>>

\* lines 126 - 145 of MlasQ4GemmPackBImpl<MLAS_Q4TYPE_BLK1>
ApplyQ4Asym ==
    /\ rr_pc = "idle"
    /\ LET min == RMin(rr_in.min, RZero)
           max == RMax(rr_in.max, RZero)
           scale == Q4AsymScale(min, max)
       IN  rr_out' = [fn |-> "Q4Asym", qbits |-> 4, scale |-> scale,
                      zp |-> Q4ZeroPoint(min, scale)]
    /\ rr_pc' = "done"
    /\ UNCHANGED <<sz_vars, q4_vars, bq_vars, fl_vars, id_vars, qd_vars, rr_in>>

\* lines 76 - 78 of MlasQ4GemmPackBImpl<T>
ApplyQ4Sym ==
    /\ rr_pc = "idle"
    /\ \E max \in SymScanResults(rr_in.min, rr_in.max) :
          rr_out' = [fn |-> "Q4Sym", qbits |-> 4, scale |-> Q4SymScale(max),
                     zp |-> NoByte]
    /\ rr_pc' = "done"
    /\ UNCHANGED <<sz_vars, q4_vars, bq_vars, fl_vars, id_vars, qd_vars, rr_in>>

InitRange ==
    /\ rr_in \in RrInputs
    /\ rr_pc = "idle"
    /\ rr_out = [kind |-> "none"]
    /\ SzIdle
    /\ Q4Idle
    /\ BqIdle
    /\ IdIdle
    /\ QdIdle
    /\ FlIdle

NextRange ==
    \/ ApplyRange2ScaleZp
    \/ ApplyRange2Scale
    \/ ApplyQ4Asym
    \/ ApplyQ4Sym

SpecRange == InitRange /\ [][NextRange]_vars

(***************************************************************************)
(* Properties of the Q4 GEMM family.                                       *)
(***************************************************************************)
\* ceil(a / b)
CeilDiv(a, b) == IF a % b = 0 THEN a \div b ELSE a \div b + 1

\* the table of block descriptors: BlkLen and BlobSize per quantization type
TableBlkLen(QType) ==
    CASE QType = "BlkQ4Sym" -> 32
      [] QType = "BlkQ4Zp8" -> 32
      [] QType = "BlkQ4Sym64" -> 64
      [] QType = "BlkQ4Sym128" -> 128
TableBlobSize(QType) ==
    CASE QType = "BlkQ4Sym" -> 20
      [] QType = "BlkQ4Zp8" -> 21
      [] QType = "BlkQ4Sym64" -> 36
      [] QType = "BlkQ4Sym128" -> 68
TablePayloadOff(QType) == IF QType = "BlkQ4Zp8" THEN 5 ELSE 4

\* the number of k-blocks of a column and the offset of the blob of (n, kb)
KBlocksOf(in) == CeilDiv(in.K, TableBlkLen(in.QType))
BlobOffset(in, n, kb) == (n * KBlocksOf(in) + kb) * TableBlobSize(in.QType)

\* C1: MlasQ4GemmPackBSize returns 0 when the platform has no Q4 GEMM
\* dispatch entry, and N * ceil(K / BlkLen) * BlobSize otherwise, with
\* (BlkLen, BlobSize) = (32, 20), (32, 21), (64, 36), (128, 68) for SYM, ASYM,
\* SYM64, SYM128.
C1_PackBSize ==
    q4_pc # "idle" =>
        sz_packb = IF ~q4_in.dispatch THEN 0
                   ELSE q4_in.N * CeilDiv(q4_in.K, TableBlkLen(q4_in.QType))
                          * TableBlobSize(q4_in.QType)

\* a platform with a kernel, two columns of two SYM128 blocks, the last ragged
C1_Witness ==
    /\ q4_pc = "sized"
    /\ q4_in.dispatch
    /\ q4_in.QType = "BlkQ4Sym128"
    /\ q4_in.N = 2
    /\ q4_in.K = 129
    /\ sz_packb = 272

\* C2: the blob of column n and k-block kb starts at byte offset
\* (n * ceil(K/BlkLen) + kb) * BlobSize, the blobs are emitted column
\* outermost, every byte a blob stores lies inside it, and no byte at an offset
\* >= N * ceil(K/BlkLen) * BlobSize is written.
C2_BlobOffsets ==
    q4_pc \in {"pack", "packed", "unpack", "done"} =>
        LET KB == KBlocksOf(q4_in)
            BS == TableBlobSize(q4_in.QType)
        IN  /\ \A i \in 1..Len(q4_blobs) :
                 LET b == q4_blobs[i]
                 IN  /\ b.n \in 0..(q4_in.N - 1)
                     /\ b.kb \in 0..(KB - 1)
                     /\ i = b.n * KB + b.kb + 1
                     /\ b.off = (b.n * KB + b.kb) * BS
                     /\ \A o \in b.bytes :
                          /\ b.off <= o /\ o < b.off + BS
                          /\ o < q4_in.N * KB * BS
            /\ q4_pc # "pack" => Len(q4_blobs) = q4_in.N * KB
            /\ \A o \in DOMAIN PackedBuf :
                 PackedBuf[o] # NoByte =>
                    \E i \in 1..Len(q4_blobs) : o \in q4_blobs[i].bytes

\* all four blobs of two columns of two asymmetric blocks are emitted
C2_Witness ==
    /\ q4_pc = "packed"
    /\ q4_in.QType = "BlkQ4Zp8"
    /\ q4_in.N = 2
    /\ q4_in.K = 33
    /\ Len(q4_blobs) = 4
    /\ q4_blobs[4].off = 63
    /\ PackedBuf[62] # NoByte
    /\ PackedBuf[67] # NoByte

\* the number of source values of k-block kb
KLenOf(in, kb) == Min2(TableBlkLen(in.QType), in.K - kb * TableBlkLen(in.QType))

\* the index in the source of element (k, n)
SourceIndex(in, k, n) == in.ldb * k + n

\* C3: in every blob written, payload byte 16*s + l holds the quantized value
\* of block element 32*s + l in its low nibble and that of block element
\* 32*s + l + 16 in its high nibble, for every block element the source has.
C3_NibbleLayout ==
    \A i \in 1..Len(q4_blobs) :
        LET b == q4_blobs[i]
            klen == KLenOf(q4_in, b.kb)
        IN  \A s \in 0..((klen - 1) \div 32), l \in 0..15 :
              LET byte == PackedBuf[b.off + TablePayloadOff(q4_in.QType)
                                    + 16 * s + l]
                  k0 == b.kb * TableBlkLen(q4_in.QType) + 32 * s + l
              IN  /\ 32 * s + l < klen =>
                        /\ q4_elem[SourceIndex(q4_in, k0, b.n)].q \in 0..15
                        /\ byte % 16 = q4_elem[SourceIndex(q4_in, k0, b.n)].q
                  /\ 32 * s + l + 16 < klen =>
                        /\ q4_elem[SourceIndex(q4_in, k0 + 16, b.n)].q \in 0..15
                        /\ byte \div 16
                             = q4_elem[SourceIndex(q4_in, k0 + 16, b.n)].q

\* a SYM128 blob with values in its fourth sub-stride whose two nibbles differ
C3_Witness ==
    /\ q4_pc = "packed"
    /\ q4_in.QType = "BlkQ4Sym128"
    /\ q4_in.K >= 128
    /\ q4_in.seed > 0
    /\ \E l \in 0..15 :
          /\ PackedBuf[4 + 48 + l] % 16 # PackedBuf[4 + 48 + l] \div 16
          /\ PackedBuf[4 + 48 + l] % 16 = q4_elem[SourceIndex(q4_in, 96 + l, 0)].q
          /\ PackedBuf[4 + 48 + l] \div 16
                = q4_elem[SourceIndex(q4_in, 112 + l, 0)].q

\* the float unpack has to produce for a packed element
Dequantized(QType, e) ==
    IF QType = "BlkQ4Zp8" THEN RStored(RMul(RInt(e.q - e.zp), e.scale))
    ELSE RStored(RMul(RInt(e.q - 8), e.scale))

\* C4: MlasQ4GemmUnPackB writes to FpData[ldb*k + n], for every k < K and
\* n < N, (q - 8) * scale for the symmetric types and (q - zp) * scale for the
\* asymmetric type, with the q, scale and zp pack stored for source element
\* (k, n); it writes no other element of FpData.
C4_UnpackInverse ==
    LET elements == {SourceIndex(q4_in, k, n) :
                        k \in 0..(q4_in.K - 1), n \in 0..(q4_in.N - 1)}
    IN  /\ q4_pc \in {"unpack", "done"} =>
            /\ q4_outWrites \subseteq elements
            /\ \A i \in DOMAIN FpOut :
                 IF i \in q4_outWrites
                 THEN FpOut[i] = Dequantized(q4_in.QType, q4_elem[i])
                 ELSE FpOut[i] = NoFloat
        /\ q4_pc = "done" => q4_outWrites = elements

\* an asymmetric matrix of two padded columns and a ragged second block,
\* unpacked to values that are not all 0
C4_Witness ==
    /\ q4_pc = "done"
    /\ q4_in.QType = "BlkQ4Zp8"
    /\ q4_in.N = 2
    /\ q4_in.ldb = 3
    /\ q4_in.K = 33
    /\ FpOut[SourceIndex(q4_in, 32, 1)] # RZero
    /\ FpOut[SourceIndex(q4_in, 32, 1)] # NoFloat
    /\ FpOut[2] = NoFloat

(***************************************************************************)
(* Properties of the blockwise quantizer.                                  *)
(***************************************************************************)
\* the number of entries of a buffer
Size(buf) == Cardinality(DOMAIN buf)

\* the rows and the columns of a quantization block
BlockRows(in) == IF in.cw THEN in.block_size ELSE 1
BlockCols(in) == IF in.cw THEN 1 ELSE in.block_size

\* the meta grid and the quantized shape of a supported shape
MetaRows(in) == CeilDiv(in.rows, BlockRows(in))
MetaCols(in) == CeilDiv(in.columns, BlockCols(in))
QRows(in) == CeilDiv(MetaRows(in) * BlockRows(in) * 4, 8)
QCols(in) == MetaCols(in) * BlockCols(in)

Supported(in) == in.block_size \in {16, 32, 64, 128, 256}
AfterSizes == bq_pc \notin {"idle", "meta", "qshape"}
AfterQuantize == bq_pc \in {"quantized", "dequant", "done"}

\* C5: for every rows, columns >= 1, supported block size and both axes,
\* MlasBlockwiseQuantizedBufferSizes (qbits = 4) returns
\* data_bytes = q_rows * q_cols and n_scales = meta_rows * meta_cols, where
\* (meta_rows, meta_cols) = (ceil(rows/block_rows), ceil(columns/block_cols))
\* is what MlasBlockwiseQuantMetaShape returns and (q_rows, q_cols) =
\* (ceil(meta_rows*block_rows*4/8), meta_cols*block_cols) is what
\* MlasBlockwiseQuantizedShape returns; the zero-point byte count is
\* ceil(meta_rows*4/8) * meta_cols.
C5_BufferSizes ==
    (AfterSizes /\ Supported(bq_in) /\ sz_call.qbits = 4) =>
        /\ sz_meta = <<MetaRows(bq_in), MetaCols(bq_in)>>
        /\ sz_qshape = <<QRows(bq_in), QCols(bq_in)>>
        /\ sz_bufs[1] = sz_qshape[1] * sz_qshape[2]
        /\ sz_bufs[2] = sz_meta[1] * sz_meta[2]
        /\ sz_call.wantZp =>
              sz_bufs[3] = CeilDiv(sz_meta[1] * 4, 8) * sz_meta[2]

\* 513 rows of three columns in column-wise blocks of 256: a meta grid of
\* 3 x 3, 384 x 3 bytes of data and 2 x 3 bytes of zero points
C5_Witness ==
    /\ bq_pc = "sized"
    /\ bq_in = [block_size |-> 256, cw |-> TRUE, rows |-> 513, columns |-> 3]
    /\ sz_call = [qbits |-> 4, wantZp |-> TRUE]
    /\ sz_meta = <<3, 3>>
    /\ sz_qshape = <<384, 3>>
    /\ sz_bufs = <<1152, 9, 6>>

\* nothing was stored to a buffer
Untouched(buf, fill) == \A o \in DOMAIN buf : buf[o] = fill

\* C6: for a block_size outside {16,32,64,128,256} the size helpers return 0
\* for every output (meta shape, quantized shape, data bytes, scale count,
\* zero-point bytes) and MlasQuantizeBlockwise and MlasDequantizeBlockwise
\* return without a store to dst, scales or zero_points; for qbits # 4
\* MlasBlockwiseQuantizedBufferSizes returns 0 for every output.
C6_UnsupportedIsNoOp ==
    /\ (AfterSizes /\ ~Supported(bq_in)) =>
          /\ sz_meta = <<0, 0>>
          /\ sz_qshape = <<0, 0>>
          /\ sz_bufs[1] = 0 /\ sz_bufs[2] = 0
          /\ sz_call.wantZp => sz_bufs[3] = 0
          /\ DOMAIN bq_tile = {}
          /\ Untouched(bq_dst, NoByte)
          /\ Untouched(bq_scales, NoFloat)
          /\ Untouched(bq_zero_points, NoByte)
          /\ Untouched(bq_out, NoFloat)
    /\ (AfterSizes /\ sz_call.qbits # 4) =>
          /\ sz_bufs[1] = 0 /\ sz_bufs[2] = 0
          /\ sz_call.wantZp => sz_bufs[3] = 0

\* both calls have returned for a block_size of 24 and buffers that are not
\* empty
C6_Witness ==
    /\ bq_pc = "done"
    /\ bq_in.block_size = 24
    /\ bq_in.rows * bq_in.columns > 20
    /\ sz_call.wantZp
    /\ sz_bufs = <<0, 0, 0>>
    /\ Size(bq_dst) > 20 /\ Size(bq_scales) > 20 /\ Size(bq_zero_points) > 20
    /\ Size(bq_out) > 20

\* no index occurs in the logs of two distinct tiles
PairwiseDisjoint(log) ==
    \A t1 \in DOMAIN log, t2 \in DOMAIN log :
        t1 # t2 => Range(log[t1]) \cap Range(log[t2]) = {}

\* C7: during one call of quantizeAndTranspose no two distinct tiles store to
\* the same location of dst, scales or zero_points, and no tile reads a scale
\* that a different tile stores (a tile reads no entry of zero_points: it
\* uses its own zp_bytes); during one call of dequantize, whose tiles store
\* to its dst only, no two distinct tiles store to the same location.  This
\* holds for ragged shapes too.
C7_TilesDisjoint ==
    /\ PairwiseDisjoint(bq_dstW)
    /\ PairwiseDisjoint(bq_scW)
    /\ PairwiseDisjoint(bq_zpW)
    /\ \A t1 \in DOMAIN bq_scR, t2 \in DOMAIN bq_scW :
          t1 # t2 => bq_scR[t1] \cap Range(bq_scW[t2]) = {}
    /\ PairwiseDisjoint(bq_outW)

\* four tiles have quantized and then dequantized 33 rows (odd, ragged) of two
\* columns, with zero points
C7_Witness ==
    /\ bq_pc = "done"
    /\ bq_in = [block_size |-> 16, cw |-> TRUE, rows |-> 33, columns |-> 2]
    /\ bq_data.hasZp
    /\ DOMAIN bq_tile = 0..3
    /\ \A t \in 0..3 :
          /\ Len(bq_dstW[t]) > 0 /\ Len(bq_scW[t]) > 0 /\ Len(bq_zpW[t]) > 0
          /\ bq_scR[t] # {}
          /\ Len(bq_outW[t]) > 0

\* the serial loop MlasTryBatchParallel degrades to: the bodies of the tiles
\* from, from + 1, ... in order, each one whole
RECURSIVE SerialFrom(_, _, _, _)
SerialFrom(in, data, mem, from) ==
    IF from >= DispatchTiles(in) THEN mem
    ELSE CHOOSE r \in
            {SerialFrom(in, data, m, from + 1) :
                m \in {QuantizeTile(in, data, mem, from)}} : TRUE

\* C8: for a fixed input, dst, scales and zero_points after
\* MlasQuantizeBlockwise are the same for every order and interleaving of the
\* halves of the tile bodies: they are what the serial loop produces.
C8_OrderIndependent ==
    (bq_pc = "quantized" /\ Supported(bq_in)) =>
        [dst |-> bq_dst, scales |-> bq_scales, zero_points |-> bq_zero_points]
          = SerialFrom(bq_in, bq_data,
                       [dst |-> NewBuf(Size(bq_dst), NoByte),
                        scales |-> NewBuf(Size(bq_scales), NoFloat),
                        zero_points |-> NewBuf(Size(bq_zero_points), NoByte)],
                       0)

\* four tiles of a row-wise quantization of a matrix that is not all zero
C8_Witness ==
    /\ bq_pc = "quantized"
    /\ bq_in = [block_size |-> 16, cw |-> FALSE, rows |-> 3, columns |-> 17]
    /\ bq_data.seed = 1
    /\ bq_data.hasZp
    /\ DOMAIN bq_tile = 0..3
    /\ \E o \in DOMAIN bq_dst : bq_dst[o] \notin {NoByte, 0, 136}

\* the zero point of meta cell (mr, mc): its nibble of zero_points, 8 when
\* zero_points is null
ZeroPointOf(in, mr, mc) ==
    IF bq_data.hasZp
    THEN LET byte == bq_zero_points[mc * CeilDiv(MetaRows(in), 2) + mr \div 2]
         IN  IF mr % 2 = 0 THEN byte % 16 ELSE byte \div 16
    ELSE 8

\* clamp(round(v * recip + zp), 0, 15) of source element (i, j), with the
\* scale and the zero point of its block
QuantizedValue(in, i, j) ==
    LET mr == i \div BlockRows(in)
        mc == j \div BlockCols(in)
        scale == bq_scales[mc * MetaRows(in) + mr]
        x == RAdd(RMul(SrcAt(bq_data.seed, i * bq_data.ld + j),
                       Reciprocal(scale)),
                  RInt(ZeroPointOf(in, mr, mc)))
        q == Roundf(x)
    IN  IF q < 0 THEN 0 ELSE IF q > 15 THEN 15 ELSE q

\* C9: after quantizeAndTranspose the 4-bit quantized value of every source
\* element (i, j), i < rows, j < columns, is in the low nibble of
\* dst[j * q_rows + i/2] when i is even and in the high nibble of that byte
\* when i is odd; when rows is odd, the high nibble of the byte that holds
\* row rows - 1 is the zero point used for row rows - 1 (8 when zero_points
\* is null).
C9_NibblePlacement ==
    (bq_pc = "quantized" /\ Supported(bq_in)) =>
        /\ \A j \in 0..(bq_in.columns - 1), i \in 0..(bq_in.rows - 1) :
              LET byte == bq_dst[j * QRows(bq_in) + i \div 2]
              IN  /\ byte \in 0..255
                  /\ (IF i % 2 = 0 THEN byte % 16 ELSE byte \div 16)
                        = QuantizedValue(bq_in, i, j)
        /\ bq_in.rows % 2 = 1 =>
              \A j \in 0..(bq_in.columns - 1) :
                  bq_dst[j * QRows(bq_in) + (bq_in.rows - 1) \div 2] \div 16
                    = ZeroPointOf(bq_in, (bq_in.rows - 1) \div BlockRows(bq_in),
                                  j \div BlockCols(bq_in))

\* 17 rows (odd) of two columns with zero points: the last row of column 1
\* shares its byte with a zero point that is not 8
C9_Witness ==
    /\ bq_pc = "quantized"
    /\ bq_in = [block_size |-> 16, cw |-> TRUE, rows |-> 17, columns |-> 2]
    /\ bq_data.hasZp
    /\ bq_data.seed = 1
    /\ bq_dst[1 * 16 + 8] \div 16 = bq_zero_points[1] \div 16
    /\ bq_zero_points[1] \div 16 # 8
    /\ bq_dst[1 * 16 + 8] % 16 # bq_dst[1 * 16 + 8] \div 16
    /\ bq_dst[3] % 16 # bq_dst[3] \div 16

\* how many stores to index x the tiles logged
StoresTo(log, x) ==
    Cardinality({<<t, n>> \in UNION {{<<u, m>> : m \in 1..Len(log[u])} :
                                        u \in DOMAIN log} : log[t][n] = x})

\* C10: after quantizeAndTranspose every cell (meta_row, meta_col) of the meta
\* grid has exactly one scale, stored exactly once, at
\* scales[meta_col * meta_rows + meta_row], by the tile of the cell; the number
\* of stores to scales is meta_rows * meta_cols and none goes outside
\* [0, meta_rows * meta_cols); the number of tiles executed is
\* ceil(meta_rows/2) * meta_cols when columnwise.
C10_OneScalePerCell ==
    (bq_pc = "quantized" /\ Supported(bq_in)) =>
        LET cells == MetaRows(bq_in) * MetaCols(bq_in)
        IN  /\ \A mr \in 0..(MetaRows(bq_in) - 1), mc \in 0..(MetaCols(bq_in) - 1) :
                 /\ StoresTo(bq_scW, mc * MetaRows(bq_in) + mr) = 1
                 /\ Occurrences(bq_scW[(mr \div 2) * MetaCols(bq_in) + mc],
                                mc * MetaRows(bq_in) + mr) = 1
                 /\ bq_scales[mc * MetaRows(bq_in) + mr] # NoFloat
            /\ \A t \in DOMAIN bq_scW :
                 \A n \in 1..Len(bq_scW[t]) : bq_scW[t][n] \in 0..(cells - 1)
            /\ Cardinality(UNION {{<<t, n>> : n \in 1..Len(bq_scW[t])} :
                                     t \in DOMAIN bq_scW}) = cells
            /\ Size(bq_scales) = cells
            /\ \A t \in DOMAIN bq_tile : bq_tile[t] = "done"
            /\ bq_in.cw =>
                 Cardinality(DOMAIN bq_tile)
                    = CeilDiv(MetaRows(bq_in), 2) * MetaCols(bq_in)

\* a meta grid of 3 x 2: the tiles of the first two meta rows stored two
\* scales each, those of the third one each
C10_Witness ==
    /\ bq_pc = "quantized"
    /\ bq_in = [block_size |-> 16, cw |-> TRUE, rows |-> 33, columns |-> 2]
    /\ bq_scW = (0 :> <<0, 1>>) @@ (1 :> <<3, 4>>) @@ (2 :> <<2>>)
                  @@ (3 :> <<5>>)
    /\ Size(bq_scales) = 6

\* the scanned range of meta cell (mr, mc) of the source, and the zero point
\* range reduction gives it
CellRange(in, data, mr, mc) ==
    BlockRange(data, mr * BlockRows(in),
               Min2((mr + 1) * BlockRows(in), in.rows),
               mc * BlockCols(in),
               Min2((mc + 1) * BlockCols(in), in.columns))
CellZeroPoint(in, data, mr, mc) ==
    LET mm == CellRange(in, data, mr, mc)
    IN  range2scalezp(4, mm[1], mm[2]).zp

\* C11: in asymmetric blockwise quantization, for every meta column mc and
\* every pair index p < ceil(meta_rows/2),
\* zero_points[mc * ceil(meta_rows/2) + p] = (zp(2p, mc) & 0xF) |
\* (zp(2p+1, mc) << 4); when meta row 2p+1 does not exist the high nibble is
\* the default zero point 8.
C11_ZeroPointPairs ==
    (bq_pc = "quantized" /\ Supported(bq_in) /\ bq_data.hasZp) =>
        LET pairs == CeilDiv(MetaRows(bq_in), 2)
        IN  /\ Size(bq_zero_points) = pairs * MetaCols(bq_in)
            /\ \A mc \in 0..(MetaCols(bq_in) - 1), p \in 0..(pairs - 1) :
                 bq_zero_points[mc * pairs + p]
                   = (CellZeroPoint(bq_in, bq_data, 2 * p, mc) % 16)
                     + 16 * (IF 2 * p + 1 < MetaRows(bq_in)
                             THEN CellZeroPoint(bq_in, bq_data, 2 * p + 1, mc)
                             ELSE 8)

\* a meta grid of 3 x 2 with zero points: in one meta column the byte of the
\* pair (0, 1) holds two different zero points and that of the pair (2, -)
\* has 8 above a zero point that is not 8
C11_Witness ==
    /\ bq_pc = "quantized"
    /\ Supported(bq_in)
    /\ bq_data.hasZp
    /\ MetaRows(bq_in) = 3 /\ MetaCols(bq_in) = 2
    /\ \E mc \in 0..1 :
          /\ bq_zero_points[2 * mc] % 16 # bq_zero_points[2 * mc] \div 16
          /\ bq_zero_points[2 * mc + 1] \div 16 = 8
          /\ bq_zero_points[2 * mc + 1] % 16 # 8

\* the nibble quantizeAndTranspose stored for source element (i, j)
StoredNibble(in, i, j) ==
    LET byte == bq_dst[j * QRows(in) + i \div 2]
    IN  IF i % 2 = 0 THEN byte % 16 ELSE byte \div 16

\* C12: dequantize mirrors quantizeAndTranspose: for every (i, j), i < rows,
\* j < columns, it stores dst[j * rows + i] = (q(i,j) - zp) * scale exactly
\* once, with the nibble q(i,j) quantize stored for (i, j) and the scale and
\* the zero point quantize stored for the block of (i, j), column-wise and
\* row-wise; the zero point is 8 for every block when zero_points is null.
C12_DequantizeMirrors ==
    (bq_pc = "done" /\ Supported(bq_in)) =>
        /\ Size(bq_out) = bq_in.rows * bq_in.columns
        /\ \A j \in 0..(bq_in.columns - 1), i \in 0..(bq_in.rows - 1) :
              LET mr == i \div BlockRows(bq_in)
                  mc == j \div BlockCols(bq_in)
              IN  /\ bq_out[j * bq_in.rows + i]
                       = FltMul(RInt(StoredNibble(bq_in, i, j)
                                     - ZeroPointOf(bq_in, mr, mc)),
                                bq_scales[mc * MetaRows(bq_in) + mr])
                  /\ \E t \in DOMAIN bq_outW :
                        j * bq_in.rows + i \in Range(bq_outW[t])
        /\ Cardinality(UNION {{<<t, n>> : n \in 1..Len(bq_outW[t])} :
                                 t \in DOMAIN bq_outW})
              = bq_in.rows * bq_in.columns

\* a row-wise quantization with zero points of three rows of 17 columns was
\* dequantized to a matrix that is not all zero
C12_Witness ==
    /\ bq_pc = "done"
    /\ bq_in = [block_size |-> 16, cw |-> FALSE, rows |-> 3, columns |-> 17]
    /\ bq_data.hasZp
    /\ \E o \in DOMAIN bq_out : bq_out[o] \notin {NoFloat, RZero}
    /\ \E o \in DOMAIN bq_zero_points : bq_zero_points[o] # 136

(***************************************************************************)
(* Properties of range reduction.                                          *)
(***************************************************************************)
\* C13: every zero point range reduction produces (range2scalezp, and the
\* asymmetric Q4 GEMM pack) lies in [0, (1 << qbits) - 1], for every scanned
\* (min, max): all-positive, all-negative and all-zero blocks included.
C13_ZeroPointInRange ==
    (rr_pc = "done" /\ rr_out.fn \in {"range2scalezp", "Q4Asym"}) =>
        rr_out.zp \in 0..(2 ^ rr_out.qbits - 1)

\* an all-negative block reduced for 2 bits: the zero point is the largest
\* one, 3
C13_Witness ==
    /\ rr_pc = "done"
    /\ rr_out.fn = "range2scalezp"
    /\ rr_out.qbits = 2
    /\ RLess(rr_in.max, RZero)
    /\ rr_out.zp = 3

\* C14 as the specification states it: every scale a quantizer stores is
\* finite and >= 0.
C14_ScalesNonNegative ==
    rr_pc = "done" => (rr_out.scale # RInf /\ ~RLess(rr_out.scale, RZero))

\* C14, amended: a scale of the asymmetric quantizers (range2scalezp, the
\* asymmetric Q4 GEMM pack) is >= 0, and finite unless max(max, 0) -
\* min(min, 0) exceeds the largest float; a scale of the symmetric quantizers
\* (range2scale, the symmetric Q4 GEMM pack) is finite and is
\* m / -(2^(qbits-1)) for the value m of the largest magnitude of the block,
\* so it is negative when m is positive and >= 0 otherwise.
C14_ScaleSigns ==
    rr_pc = "done" =>
        /\ rr_out.fn \in {"range2scalezp", "Q4Asym"} =>
              /\ ~RLess(rr_out.scale, RZero)
              /\ rr_out.scale = RInf <=>
                    RLess(RInt(FltMax),
                          RSub(RMax(rr_in.max, RZero), RMin(rr_in.min, RZero)))
        /\ rr_out.fn \in {"range2scale", "Q4Sym"} =>
              LET m == RStored(RMul(rr_out.scale,
                                    RInt(0 - 2 ^ (rr_out.qbits - 1))))
              IN  /\ rr_out.scale # RInf
                  /\ m \in {rr_in.min, rr_in.max}
                  /\ ~RLess(RAbs(m), RAbs(rr_in.min))
                  /\ ~RLess(RAbs(m), RAbs(rr_in.max))
                  /\ RLess(rr_out.scale, RZero) <=> RLess(RZero, m)

\* range2scale of a block whose value of the largest magnitude is positive:
\* the scale is negative
C14_Witness ==
    /\ rr_pc = "done"
    /\ rr_out.fn = "range2scale"
    /\ RLess(RAbs(rr_in.min), RAbs(rr_in.max))
    /\ RLess(rr_in.min, RZero)
    /\ RLess(rr_out.scale, RZero)

(***************************************************************************)
(* Round trips of the blockwise quantizer.                                 *)
(***************************************************************************)
\* source element (i, j), what the round trip made of it, and the scale of
\* its block
SourceValue(i, j) == SrcAt(bq_data.seed, i * bq_data.ld + j)
RoundTrip(in, i, j) == bq_out[j * in.rows + i]
RoundTripError(in, i, j) == RAbs(RSub(RoundTrip(in, i, j), SourceValue(i, j)))
ScaleOfBlock(in, i, j) ==
    bq_scales[(j \div BlockCols(in)) * MetaRows(in) + i \div BlockRows(in)]

\* the largest magnitude among the source values of the block of (i, j)
MaxAbsOfBlock(in, i, j) ==
    LET mm == CellRange(in, bq_data, i \div BlockRows(in), j \div BlockCols(in))
    IN  RMax(RAbs(mm[1]), RAbs(mm[2]))

\* the block axis is a multiple of the block size and every value is in
\* [-1, 1]
WholeBlocksInUnitRange(in) ==
    /\ (IF in.cw THEN in.rows ELSE in.columns) % in.block_size = 0
    /\ \A i \in 0..(in.rows - 1), j \in 0..(in.columns - 1) :
          ~RLess(RInt(1), RAbs(SourceValue(i, j)))

\* C15 as the specification states it: symmetric 4-bit blockwise round trip
\* of a matrix of whole blocks with values in [-1, 1]: every element x has
\* |dequantize(quantize(X))(x) - x| <= scale/2, with the scale of its block,
\* and scale <= max_abs(block)/7.
C15_RoundTripHalfScale ==
    (bq_pc = "done" /\ Supported(bq_in) /\ ~bq_data.hasZp
       /\ WholeBlocksInUnitRange(bq_in)) =>
        \A i \in 0..(bq_in.rows - 1), j \in 0..(bq_in.columns - 1) :
            /\ ~RLess(RDiv(ScaleOfBlock(bq_in, i, j), RInt(2)),
                      RoundTripError(bq_in, i, j))
            /\ ~RLess(RDiv(MaxAbsOfBlock(bq_in, i, j), RInt(7)),
                      ScaleOfBlock(bq_in, i, j))

\* the nibble of (i, j) is the clamped one: x / scale + 8 rounds to 16
ClampedAtTop(in, i, j) ==
    ~RLess(RAdd(RMul(SourceValue(i, j), Reciprocal(ScaleOfBlock(in, i, j))),
                RInt(8)),
           <<31, 2>>)

\* C15, amended: in the symmetric 4-bit blockwise round trip every element x
\* has |dequantize(quantize(X))(x) - x| <= |scale|/2 unless x / scale + 8 >=
\* 15.5 (its nibble is clamped to 15), and <= |scale| in every case, where
\* |scale| = max_abs(block)/8 for the scale of the block of x.
C15_RoundTripBound ==
    (bq_pc = "done" /\ Supported(bq_in) /\ ~bq_data.hasZp) =>
        \A i \in 0..(bq_in.rows - 1), j \in 0..(bq_in.columns - 1) :
            LET mag == RAbs(ScaleOfBlock(bq_in, i, j))
            IN  /\ ~ClampedAtTop(bq_in, i, j) =>
                      ~RLess(RDiv(mag, RInt(2)), RoundTripError(bq_in, i, j))
                /\ ~RLess(mag, RoundTripError(bq_in, i, j))
                /\ RStored(RMul(mag, RInt(8))) = MaxAbsOfBlock(bq_in, i, j)

\* a symmetric round trip of whole blocks with values in [-1, 1] in which an
\* element is off by the whole scale and another by nothing
C15_Witness ==
    /\ bq_pc = "done"
    /\ Supported(bq_in)
    /\ ~bq_data.hasZp
    /\ bq_data.seed = 3
    /\ WholeBlocksInUnitRange(bq_in)
    /\ \E i \in 0..(bq_in.rows - 1), j \in 0..(bq_in.columns - 1) :
          /\ ClampedAtTop(bq_in, i, j)
          /\ RoundTripError(bq_in, i, j) = RAbs(ScaleOfBlock(bq_in, i, j))
          /\ ~RIsZero(ScaleOfBlock(bq_in, i, j))

\* C16 as the specification states it: in the asymmetric blockwise round
\* trip every source element whose value is 0 gets the zero point of its
\* block as its nibble and dequantizes to exactly 0, whatever the other
\* values of its block are.
C16_ZeroRecovered ==
    (bq_pc = "done" /\ Supported(bq_in) /\ bq_data.hasZp) =>
        \A i \in 0..(bq_in.rows - 1), j \in 0..(bq_in.columns - 1) :
            RIsZero(SourceValue(i, j)) =>
                /\ StoredNibble(bq_in, i, j)
                     = ZeroPointOf(bq_in, i \div BlockRows(bq_in),
                                   j \div BlockCols(bq_in))
                /\ RoundTrip(bq_in, i, j) = RZero

\* C16, amended: in the asymmetric blockwise round trip every source element
\* whose value is 0 gets the zero point of its block as its nibble, and it
\* dequantizes to exactly 0 when the scale of its block is finite; when
\* the range of the block overflows the scale is +inf and the element
\* dequantizes to 0 * inf, which is not a number.
C16_ZeroRecoveredFiniteScale ==
    (bq_pc = "done" /\ Supported(bq_in) /\ bq_data.hasZp) =>
        \A i \in 0..(bq_in.rows - 1), j \in 0..(bq_in.columns - 1) :
            RIsZero(SourceValue(i, j)) =>
                /\ StoredNibble(bq_in, i, j)
                     = ZeroPointOf(bq_in, i \div BlockRows(bq_in),
                                   j \div BlockCols(bq_in))
                /\ RoundTrip(bq_in, i, j)
                     = IF RIsFinite(ScaleOfBlock(bq_in, i, j))
                       THEN RZero ELSE RNaN

\* an asymmetric round trip in which a zero shares its block with values of
\* both signs, so that the zero point is neither end of the nibble range nor
\* the default 8, and in which the zero came back as 0 and a value of its
\* block did not
C16_Witness ==
    /\ bq_pc = "done"
    /\ Supported(bq_in)
    /\ bq_data.hasZp
    /\ \E i \in 0..(bq_in.rows - 1), j \in 0..(bq_in.columns - 1) :
          /\ RIsZero(SourceValue(i, j))
          /\ StoredNibble(bq_in, i, j) \in 1..14
          /\ StoredNibble(bq_in, i, j) # 8
          /\ RIsFinite(ScaleOfBlock(bq_in, i, j))
          /\ RoundTrip(bq_in, i, j) = RZero
          /\ \E i2 \in 0..(bq_in.rows - 1) :
                /\ i2 \div BlockRows(bq_in) = i \div BlockRows(bq_in)
                /\ ~RIsZero(RoundTrip(bq_in, i2, j))

(***************************************************************************)
(* Packing again what was dequantized.  A caller quantizes a matrix with   *)
(* MlasQuantizeBlockwise, dequantizes the result with                      *)
(* MlasDequantizeBlockwise, and quantizes that matrix again, and so on.    *)
(* MlasDequantizeBlockwise writes element (i, j) to dst[j * rows + i] and  *)
(* MlasQuantizeBlockwise reads it from src[i * leadingDimension + j]: the  *)
(* caller transposes in between.  Every call runs its tiles to the end.    *)
(***************************************************************************)
\* the buffers a caller passes to MlasQuantizeBlockwise
FreshBuffers(in, hasZp) ==
    LET n == quantizedBufferSizes(in.block_size, in.cw, in.rows, in.columns,
                                  hasZp)
    IN  [dst |-> NewBuf(n[1], NoByte),
         scales |-> NewBuf(n[2], NoFloat),
         zero_points |-> IF hasZp THEN NewBuf(n[3], NoByte) ELSE <<>>]

\* MlasDequantizeBlockwise: the bodies of the tiles from, from + 1, ...
RECURSIVE DequantizeFrom(_, _, _, _, _)
DequantizeFrom(in, hasZp, mem, out, from) ==
    IF from >= DispatchTiles(in) THEN out
    ELSE CHOOSE r \in
            {DequantizeFrom(in, hasZp, mem, o, from + 1) :
                o \in {Dequantize(in, hasZp, Tile(in, from), out, mem.dst,
                                  mem.scales, mem.zero_points)}} : TRUE

\* the row-major matrix of the column-major out
Transposed(in, out) ==
    [idx \in 0..(in.rows * in.columns - 1) |->
        out[(idx % in.columns) * in.rows + idx \div in.columns]]

\* the inputs: the supported shapes, every pattern; the pattern whose ranges
\* overflow only without zero points (with them it dequantizes to matrices
\* of NaN)
IdInputs ==
    {c \in [in : {b \in BqInputs : /\ b.block_size \in BlockSizes
                                   /\ b.rows * b.columns <= MaxElements
                                   /\ DispatchTiles(b) <= MaxTiles},
            seed : Seeds, hasZp : BOOLEAN] :
        ~(c.seed = 4 /\ c.hasZp)}

\* MlasQuantizeBlockwise of the current matrix
Repack ==
    /\ id_pc = "src"
    /\ Len(id_packs) < MaxPacks
    /\ id_packs' = Append(id_packs,
                          SerialFrom(id_in, id_data,
                                     FreshBuffers(id_in, id_data.hasZp), 0))
    /\ id_pc' = "packed"
    /\ UNCHANGED <<sz_vars, q4_vars, bq_vars, fl_vars, rr_vars, qd_vars, id_in, id_data>>

\* MlasDequantizeBlockwise of the last pack, and the transposition
DequantizePack ==
    /\ id_pc = "packed"
    /\ Len(id_packs) < MaxPacks
    /\ id_data' =
          [seed |-> FromMatrix, ld |-> id_in.columns, hasZp |-> id_data.hasZp,
           mat |-> Transposed(
                     id_in,
                     DequantizeFrom(id_in, id_data.hasZp,
                                    id_packs[Len(id_packs)],
                                    NewBuf(id_in.rows * id_in.columns, NoFloat),
                                    0))]
    /\ id_pc' = "src"
    /\ UNCHANGED <<sz_vars, q4_vars, bq_vars, fl_vars, rr_vars, qd_vars, id_in, id_packs>>

InitIdem ==
    /\ \E c \in IdInputs :
          /\ id_in = c.in
          /\ id_data = [seed |-> c.seed, ld |-> c.in.columns,
                        hasZp |-> c.hasZp]
    /\ id_packs = <<>>
    /\ id_pc = "src"
    /\ SzIdle
    /\ Q4Idle
    /\ BqIdle
    /\ RrIdle
    /\ QdIdle
    /\ FlIdle

NextIdem ==
    \/ Repack
    \/ DequantizePack

SpecIdem == InitIdem /\ [][NextIdem]_vars

\* C17 as the specification states it: P2 = pack(dequantize(P1)) and
\* P3 = pack(dequantize(P2)) are identical in payload, scales and zero
\* points, with and without zero points.
C17_RepackIdentical ==
    Len(id_packs) >= 3 => id_packs[2] = id_packs[3]

\* no block of the pack has a zero scale (the sign of a zero scale is not
\* part of the exact values: ZeroScaleSignAlternates)
NoZeroScale(pack) ==
    \A k \in DOMAIN pack.scales : ~RIsZero(pack.scales[k])

\* C17, amended: without zero points (the symmetric quantizer), and when no
\* block has a zero scale, P2 and P3 are identical in payload and scales;
\* they are P1 as well.
C17_SymmetricRepackIdentical ==
    \A n \in 2..Len(id_packs) :
        (~id_data.hasZp /\ NoZeroScale(id_packs[1])) =>
            id_packs[n] = id_packs[1]

\* three symmetric packs of a matrix that is not all zero and not what it
\* dequantizes to
C17_Witness ==
    /\ Len(id_packs) = 3
    /\ ~id_data.hasZp
    /\ id_in.rows > 1 /\ id_in.columns > 1
    /\ NoZeroScale(id_packs[1])
    /\ \E o \in DOMAIN id_packs[3].dst : id_packs[3].dst[o] \notin {136, NoByte}
    /\ \E idx \in DOMAIN id_data.mat :
          id_data.mat[idx] # SrcAt(2, idx) /\ ~RIsZero(id_data.mat[idx])
    /\ id_packs[3] = SerialFrom(id_in, [seed |-> 2, ld |-> id_in.columns,
                                        hasZp |-> FALSE],
                                FreshBuffers(id_in, FALSE), 0)

(***************************************************************************)
(* BlockwiseQDQQuantizer<float, qbits>, qbits 2 or 4.  The header of the   *)
(* loop over the column groups of a tile (line 769) has two clauses,       *)
(*     for (input_idx + pack_size_ < input_end_idx;                        *)
(*          input_idx += pack_size_, scale_idx += pack_size_)              *)
(* and is read with the first as its condition and the second as its step, *)
(* the initialisation being the three assignments before it.  ORT_ENFORCE  *)
(* and ORT_THROW are not part of the sources: they raise the fatal error   *)
(* the specification names.                                                *)
(***************************************************************************)
\* pack_size_ and shift_bit_
pack_size_(qbits) == kPackSize(qbits)
shift_bit_(qbits) == IF qbits = 4 THEN 1 ELSE IF qbits = 2 THEN 2 ELSE 0
\* idx >> shift_bit_
ShiftRight(idx, bits) == idx \div (2 ^ bits)

\* Pack(vals): vals[1] is the code's vals[0]
Pack(qbits, vals) ==
    IF qbits = 4 THEN (vals[1] % 16) + 16 * (vals[2] % 16)
    ELSE (vals[1] % 4) + 4 * (vals[2] % 4) + 16 * (vals[3] % 4)
         + 64 * (vals[4] % 4)

\* the buffers of a call, as the comments of the functions size them
QdqBuffers(in, hasZp) ==
    LET metas == CeilDiv(in.rows, in.quant_block_size) * in.columns
    IN  [dst |-> NewBuf(CeilDiv(in.rows * in.columns * in.qbits, 8), NoByte),
         scales |-> NewBuf(metas, NoFloat),
         zero_points |-> IF hasZp
                         THEN NewBuf(CeilDiv(metas * in.qbits, 8), NoByte)
                         ELSE <<>>]

\* ORT_THROW raises the fatal error what and leaves the memory as it is;
\* ORT_ENFORCE raises what unless the condition holds
ORT_THROW(what, mem) == [err |-> what, mem |-> mem]
ORT_ENFORCE(condition, what) == IF condition THEN "none" ELSE what

QdqRowWiseSilent(mem) == [err |-> "none", mem |-> mem]
\* quantizeRowWise: ORT_THROW(... "is not implemented")
quantizeRowWise(mem) == ORT_THROW("not implemented", mem)

QdqShapeAny(qbits, columns) == TRUE
\* the condition of ORT_ENFORCE: columns % pack_size_ == 0
QdqShapeOk(qbits, columns) == columns % pack_size_(qbits) = 0

\* thr_blk_size, num_row_thr_blk, num_col_thr_blk, num_thr_blk
thr_blk_size == 16
num_row_thr_blk(in) ==
    (in.rows + in.quant_block_size - 1) \div in.quant_block_size
num_col_thr_blk(in) == (in.columns + thr_blk_size - 1) \div thr_blk_size
num_thr_blk(in) == num_row_thr_blk(in) * num_col_thr_blk(in)

\* the locals of the body of tile thr_blk_idx before its loop
QdqTile(in, thr_blk_idx) ==
    LET row_quant_blk_idx == thr_blk_idx \div num_col_thr_blk(in)
        col_thr_blk_idx == thr_blk_idx % num_col_thr_blk(in)
        row_idx == row_quant_blk_idx * in.quant_block_size
        col_idx == col_thr_blk_idx * thr_blk_size
        col_size == Min2(thr_blk_size, in.columns - col_idx)
    IN  [row_idx |-> row_idx,
         col_idx |-> col_idx,
         row_size |-> Min2(in.quant_block_size, in.rows - row_idx),
         col_size |-> col_size,
         input_idx |-> row_idx * in.columns + col_idx,
         scale_idx |-> row_quant_blk_idx * in.columns + col_idx,
         input_end_idx |-> row_idx * in.columns + col_idx + col_size]

\* the iterations of the loop of line 769: those g >= 0 with
\* input_idx + g * pack_size_ + pack_size_ < input_end_idx
QdqGroups(qbits, tile) ==
    Cardinality({g \in 0..tile.col_size :
                    tile.input_idx + g * pack_size_(qbits) + pack_size_(qbits)
                      < tile.input_end_idx})

\* vmin_t[i], vmax_t[i] of the column that starts at src[first]
QdqColumnRange(in, data, first, row_size) ==
    CHOOSE mm \in
        {<<RSetMin(v), RSetMax(v)>> :
            v \in {{SrcAt(data.seed, first + j * in.columns) :
                       j \in 0..(row_size - 1)}}} : TRUE

\* scale_tt and zp_t[i] of that column
QdqScaleZp(in, data, first, row_size) ==
    CHOOSE r \in
        {IF data.hasZp
         THEN range2scalezp(in.qbits, mm[1], mm[2])
         ELSE [scale |-> range2scale(in.qbits, mm[1], mm[2]),
               zp |-> kMid(in.qbits)] :
            mm \in {QdqColumnRange(in, data, first, row_size)}} : TRUE

\* clamp(roundf(v * reciprocal_scale) + zp_f, 0, kMaxFp), as a uint8_t
QdqQuantValue(qbits, v, reciprocal_scale, zp) ==
    Max2(0, Min2(kMax(qbits),
                 Roundf(RStored(RMul(v, reciprocal_scale))) + zp))

\* the stores of iteration g of the loop of the tile: to scales, to
\* zero_points and to dst, each in order
QdqGroupStores(in, data, tile, g) ==
    LET P == pack_size_(in.qbits)
        input_idx == tile.input_idx + g * P
        scale_idx == tile.scale_idx + g * P
    IN  CHOOSE r \in
          {[scW |-> [i \in 1..P |-> [idx |-> scale_idx + (i - 1),
                                      val |-> m[i].scale]],
            zpW |-> IF data.hasZp
                    THEN <<[idx |-> ShiftRight(scale_idx, shift_bit_(in.qbits)),
                            val |-> Pack(in.qbits, [i \in 1..P |-> m[i].zp])]>>
                    ELSE <<>>,
            dstW |-> [n \in 1..tile.row_size |->
                        [idx |-> ShiftRight(input_idx + (n - 1) * in.columns,
                                            shift_bit_(in.qbits)),
                         val |-> Pack(in.qbits,
                                   [i \in 1..P |->
                                      QdqQuantValue(
                                        in.qbits,
                                        SrcAt(data.seed,
                                              input_idx + (n - 1) * in.columns
                                               + (i - 1)),
                                        Reciprocal(m[i].scale),
                                        m[i].zp)])]]] :
             m \in {[i \in 1..P |->
                       QdqScaleZp(in, data, input_idx + (i - 1),
                                  tile.row_size)]}} : TRUE

\* the stores of the whole body of the tile
RECURSIVE QdqTileStores(_, _, _, _, _)
QdqTileStores(in, data, tile, g, groups) ==
    IF g >= groups THEN [scW |-> <<>>, zpW |-> <<>>, dstW |-> <<>>]
    ELSE CHOOSE r \in
           {[scW |-> a.scW \o b.scW, zpW |-> a.zpW \o b.zpW,
             dstW |-> a.dstW \o b.dstW] :
              a \in {QdqGroupStores(in, data, tile, g)},
              b \in {QdqTileStores(in, data, tile, g + 1, groups)}} : TRUE

\* the calls the model draws: both bit widths, shapes of one to three tiles,
\* column counts that are and are not multiples of pack_size_
QdqColumns == {1, 2, 3, 4, 6, 8, 12, 16, 17, 18, 20}
QdqBlockSizes == {1, 2, 16}
QdqInputs ==
    {c \in [qbits : {2, 4}, rows : 1..MaxQdqRows, columns : QdqColumns,
            quant_block_size : QdqBlockSizes, rowwise : BOOLEAN] :
        /\ CeilDiv(c.columns, pack_size_(c.qbits)) <= MaxQdqGroups
        /\ num_thr_blk(c) <= 3}

\* BlockwiseQDQQuantizer::quantizeRowWise
QuantizeRowWise ==
    /\ qd_pc = "call"
    /\ qd_in.rowwise
    /\ \E r \in {quantizeRowWise([dst |-> qd_dst, scales |-> qd_scales,
                                  zero_points |-> qd_zero_points])} :
          /\ qd_err' = r.err
          /\ qd_pc' = IF r.err = "none" THEN "done" ELSE "failed"
          /\ qd_dst' = r.mem.dst
          /\ qd_scales' = r.mem.scales
          /\ qd_zero_points' = r.mem.zero_points
    /\ UNCHANGED <<sz_vars, q4_vars, bq_vars, fl_vars, rr_vars, id_vars, qd_in, qd_data,
                   qd_tile, qd_dstW, qd_scW, qd_zpW, qd_dest>>

\* BlockwiseQDQQuantizer::quantizeColumnWise up to the start of the tiles
QuantizeColumnWiseBegin ==
    /\ qd_pc = "call"
    /\ ~qd_in.rowwise
    /\ qd_err' = ORT_ENFORCE(QdqShapeOk(qd_in.qbits, qd_in.columns),
                             "invalid shape")
    /\ IF QdqShapeOk(qd_in.qbits, qd_in.columns)
       THEN /\ qd_pc' = "tiles"
            /\ qd_tile' = [t \in 0..(num_thr_blk(qd_in) - 1) |-> "todo"]
            /\ qd_dstW' = [t \in 0..(num_thr_blk(qd_in) - 1) |-> <<>>]
            /\ qd_scW' = [t \in 0..(num_thr_blk(qd_in) - 1) |-> <<>>]
            /\ qd_zpW' = [t \in 0..(num_thr_blk(qd_in) - 1) |-> <<>>]
       ELSE /\ qd_pc' = "failed"
            /\ UNCHANGED <<qd_tile, qd_dstW, qd_scW, qd_zpW>>
    /\ UNCHANGED <<sz_vars, q4_vars, bq_vars, fl_vars, rr_vars, id_vars, qd_in, qd_data,
                   qd_dst, qd_scales, qd_zero_points, qd_dest>>

\* the body of tile t
QuantizeColumnWiseTile(t) ==
    /\ qd_pc = "tiles"
    /\ qd_tile[t] = "todo"
    /\ \E w \in {QdqTileStores(qd_in, qd_data, QdqTile(qd_in, t), 0,
                               QdqGroups(qd_in.qbits, QdqTile(qd_in, t)))} :
          /\ qd_scales' = StoreSeq(qd_scales, w.scW)
          /\ qd_zero_points' = StoreSeq(qd_zero_points, w.zpW)
          /\ qd_dst' = StoreSeq(qd_dst, w.dstW)
          /\ qd_scW' = [qd_scW EXCEPT ![t] = StoreIdx(w.scW)]
          /\ qd_zpW' = [qd_zpW EXCEPT ![t] = StoreIdx(w.zpW)]
          /\ qd_dstW' = [qd_dstW EXCEPT ![t] = StoreIdx(w.dstW)]
    /\ qd_tile' = [qd_tile EXCEPT ![t] = "done"]
    /\ UNCHANGED <<sz_vars, q4_vars, bq_vars, fl_vars, rr_vars, id_vars, qd_in, qd_data,
                   qd_pc, qd_err, qd_dest>>

\* MlasTryBatchParallel returns when every task has run
QuantizeColumnWiseEnd ==
    /\ qd_pc = "tiles"
    /\ \A t \in DOMAIN qd_tile : qd_tile[t] = "done"
    /\ qd_pc' = "done"
    /\ UNCHANGED <<sz_vars, q4_vars, bq_vars, fl_vars, rr_vars, id_vars, qd_in, qd_data,
                   qd_err, qd_tile, qd_dst, qd_scales, qd_zero_points,
                   qd_dstW, qd_scW, qd_zpW, qd_dest>>

\* the buffer a caller passes as dest of Transpose, as the comment of the
\* function sizes it
QdqDestBuffer(in) ==
    NewBuf(in.columns * CeilDiv(in.rows, in.quant_block_size)
             * CeilDiv(in.quant_block_size * in.qbits, 8), NoByte)

\* BlockwiseQDQQuantizer::Transpose: dest after the call; the body is empty
Transpose(src, dest, rows, columns, quant_block_size) == dest

\* a caller transposes what quantizeColumnWise produced
CallTranspose ==
    /\ qd_pc = "done"
    /\ qd_dest' = Transpose(qd_dst, QdqDestBuffer(qd_in), qd_in.rows,
                            qd_in.columns, qd_in.quant_block_size)
    /\ qd_pc' = "transposed"
    /\ UNCHANGED <<sz_vars, q4_vars, bq_vars, fl_vars, rr_vars, id_vars, qd_in, qd_data,
                   qd_err, qd_tile, qd_dst, qd_scales, qd_zero_points,
                   qd_dstW, qd_scW, qd_zpW>>

InitQdq ==
    /\ qd_in \in QdqInputs
    /\ qd_data \in [seed : Seeds, hasZp : BOOLEAN]
    /\ qd_pc = "call"
    /\ qd_err = "none"
    /\ qd_tile = <<>>
    /\ qd_dst = QdqBuffers(qd_in, qd_data.hasZp).dst
    /\ qd_scales = QdqBuffers(qd_in, qd_data.hasZp).scales
    /\ qd_zero_points = QdqBuffers(qd_in, qd_data.hasZp).zero_points
    /\ qd_dstW = <<>> /\ qd_scW = <<>> /\ qd_zpW = <<>>
    /\ qd_dest = <<>>
    /\ SzIdle
    /\ Q4Idle
    /\ BqIdle
    /\ RrIdle
    /\ IdIdle
    /\ FlIdle

NextQdq ==
    \/ QuantizeRowWise
    \/ QuantizeColumnWiseBegin
    \/ \E t \in DOMAIN qd_tile : QuantizeColumnWiseTile(t)
    \/ QuantizeColumnWiseEnd
    \/ CallTranspose

SpecQdq == InitQdq /\ [][NextQdq]_vars

\* no byte of the three outputs of the QDQ call was written
QdqNothingWritten ==
    /\ Untouched(qd_dst, NoByte)
    /\ Untouched(qd_scales, NoFloat)
    /\ Untouched(qd_zero_points, NoByte)

\* C18: quantizeColumnWise called with columns not a multiple of pack_count
\* (2 for 4-bit, 4 for 2-bit) raises the invalid-shape error before any tile
\* runs: the call fails, no tile exists, and no byte of dst, scales or
\* zero_points is ever written.
C18_InvalidShape ==
    (~qd_in.rowwise /\ qd_in.columns % (8 \div qd_in.qbits) # 0) =>
        /\ qd_pc \in {"call", "failed"}
        /\ qd_pc = "failed" => qd_err = "invalid shape"
        /\ qd_tile = <<>>
        /\ QdqNothingWritten

\* a 2-bit call with 6 columns, a multiple of 2 but not of 4, has failed
C18_Witness ==
    /\ ~qd_in.rowwise
    /\ qd_in.qbits = 2
    /\ qd_in.columns = 6
    /\ qd_pc = "failed"
    /\ qd_err = "invalid shape"
    /\ Size(qd_dst) > 0

QdqMetaOf(in, data, row, col) ==
    LET row_idx == (row \div in.quant_block_size) * in.quant_block_size
    IN  QdqScaleZp(in, data, row_idx * in.columns + col,
                   Min2(in.quant_block_size, in.rows - row_idx))
QdqQuantized(in, data, e) ==
    CHOOSE q \in
        {QdqQuantValue(in.qbits, SrcAt(data.seed, e), Reciprocal(m.scale),
                       m.zp) :
            m \in {QdqMetaOf(in, data, e \div in.columns, e % in.columns)}} :
        TRUE

\* pack_count values in one byte, the first in the lowest bits
RECURSIVE LowestFirst(_, _, _)
LowestFirst(qbits, vals, n) ==
    IF n > Len(vals) THEN 0
    ELSE vals[n] + (2 ^ qbits) * LowestFirst(qbits, vals, n + 1)

\* the byte of the quantized values of the elements e, e + 1, ..., and the
\* byte of the zero points of the scale indices s, s + 1, ...
QdqDataByte(in, data, e) ==
    LowestFirst(in.qbits,
                [i \in 1..(8 \div in.qbits) |->
                    QdqQuantized(in, data, e + (i - 1))], 1)
QdqZeroPointByte(in, data, sidx) ==
    LowestFirst(in.qbits,
                [i \in 1..(8 \div in.qbits) |->
                    QdqMetaOf(in, data,
                              ((sidx + (i - 1)) \div in.columns)
                                * in.quant_block_size,
                              (sidx + (i - 1)) % in.columns).zp], 1)

\* C20: after quantizeColumnWise, for every element index e that is a
\* multiple of pack_count, dst[e >> shift_bits] holds the quantized values of
\* the elements e, ..., e + pack_count - 1, the first in the lowest bits; for
\* every scale index s that is a multiple of pack_count,
\* zero_points[s >> shift_bits] holds the zero points of s, ...,
\* s + pack_count - 1 the same way; and the 2-bit values [0, 1, 2, 3] pack
\* into the byte 0xE4.
C20_QdqLayout ==
    qd_pc = "done" =>
        /\ \A e \in 0..(qd_in.rows * qd_in.columns - 1) :
              e % (8 \div qd_in.qbits) = 0 =>
                  qd_dst[e \div (8 \div qd_in.qbits)]
                    = QdqDataByte(qd_in, qd_data, e)
        /\ qd_data.hasZp =>
              \A sidx \in 0..(Size(qd_scales) - 1) :
                  sidx % (8 \div qd_in.qbits) = 0 =>
                      qd_zero_points[sidx \div (8 \div qd_in.qbits)]
                        = QdqZeroPointByte(qd_in, qd_data, sidx)
        /\ Pack(2, <<0, 1, 2, 3>>) = 228

\* the same layout, of the column groups the loop of a tile reaches: every
\* byte of dst and of zero_points that was written
QdqLayoutOfWrittenGroups ==
    qd_pc = "done" =>
        /\ \A e \in 0..(qd_in.rows * qd_in.columns - 1) :
              (/\ e % (8 \div qd_in.qbits) = 0
               /\ qd_dst[e \div (8 \div qd_in.qbits)] # NoByte) =>
                  qd_dst[e \div (8 \div qd_in.qbits)]
                    = QdqDataByte(qd_in, qd_data, e)
        /\ qd_data.hasZp =>
              \A sidx \in 0..(Size(qd_scales) - 1) :
                  (/\ sidx % (8 \div qd_in.qbits) = 0
                   /\ qd_zero_points[sidx \div (8 \div qd_in.qbits)] # NoByte) =>
                      qd_zero_points[sidx \div (8 \div qd_in.qbits)]
                        = QdqZeroPointByte(qd_in, qd_data, sidx)
        /\ Pack(2, <<0, 1, 2, 3>>) = 228

\* the nibble of element (i, j) in the row-major row-packed src and in the
\* column-major column-packed dest (-1: a byte that was never written)
NibbleOf(byte, high) ==
    IF byte = NoByte THEN NoByte
    ELSE IF high THEN byte \div 16 ELSE byte % 16
QdqSrcNibble(in, src, i, j) ==
    NibbleOf(src[(i * in.columns + j) \div 2], (i * in.columns + j) % 2 = 1)
QdqDestNibble(in, dest, i, j) ==
    LET q_rows == CeilDiv(in.rows, in.quant_block_size)
                    * CeilDiv(in.quant_block_size * 4, 8)
    IN  IF j * q_rows + i \div 2 \in DOMAIN dest
        THEN NibbleOf(dest[j * q_rows + i \div 2], i % 2 = 1)
        ELSE NoByte

\* C21: after Transpose of a 4-bit QDQ tensor, for every (i, j) with
\* i < rows and j < columns, the nibble of element (i, j) in dest (at byte
\* j * q_rows + i / 2, low nibble for even i) has been written and equals the
\* nibble of element (i, j) in src.
C21_TransposeConverts ==
    (qd_pc = "transposed" /\ qd_in.qbits = 4) =>
        \A i \in 0..(qd_in.rows - 1), j \in 0..(qd_in.columns - 1) :
            /\ QdqDestNibble(qd_in, qd_dest, i, j) # NoByte
            /\ QdqDestNibble(qd_in, qd_dest, i, j)
                 = QdqSrcNibble(qd_in, qd_dst, i, j)

(***************************************************************************)
(* MlasQ4GemmPackB and the range reductions in binary32: one column        *)
(* (N = 1, ldb = 1) of K floats, FpData[1..K].                             *)
(***************************************************************************)
\* lines 62 - 76: the scan of the symmetric pack from position l of a block
\* on; max is the first value of the largest magnitude
RECURSIVE FlSymScan(_, _, _, _)
FlSymScan(blk, l, amax, max) ==
    IF l > Len(blk) THEN max
    ELSE Once(IF F32Less(amax, F32Abs(blk[l]))
              THEN <<l + 1, F32Abs(blk[l]), blk[l]>>
              ELSE <<l + 1, amax, max>>,
              LAMBDA v : FlSymScan(blk, v[1], v[2], v[3]))

\* lines 116 - 127: the scan of the asymmetric pack, <<min, max>>
RECURSIVE FlAsymScan(_, _, _, _)
FlAsymScan(blk, l, min, max) ==
    IF l > Len(blk) THEN <<min, max>>
    ELSE Once(<<l + 1,
                IF F32Less(blk[l], min) THEN blk[l] ELSE min,
                IF F32Less(max, blk[l]) THEN blk[l] ELSE max>>,
              LAMBDA v : FlAsymScan(blk, v[1], v[2], v[3]))

\* 1.0f / scale, of a zero scale as well
FlReciprocalUnguarded(scale) == F32Div(F32OfInt(1), scale)

\* scale ? 1.0f / scale : 0.0f
FlReciprocal(scale) ==
    Once(scale, LAMBDA v :
      IF F32IsZero(v) THEN F32Zero ELSE F32Div(F32OfInt(1), v))

\* the nibble nearest to v0 + 8.5f rather than the one below it
FlSymNibbleNearest(v0) ==
    Min2(15, Max2(0, F32Roundf(F32Add(v0, F32Dyadic(17, 1)))))

\* (uint8_t)std::min(15.0f, std::max(0.0f, v0 + 8.5f))
FlSymNibble(v0) ==
    F32TruncU8(F32Min(F32OfInt(15),
                      F32Max2(F32Zero, F32Add(v0, F32Dyadic(17, 1)))))

\* (uint8_t)std::min(15.0f, std::max(0.0f, roundf(v0 * reciprocal_scale + zp)));
\* std::max(0.0f, x) is 0.0f when x is not a number
FlAsymNibble(v0, reciprocal_scale, zp) ==
    Once(F32Add(F32Mul(v0, reciprocal_scale), F32OfInt(zp)), LAMBDA x :
      IF F32IsNaN(x) THEN 0
      ELSE Min2(15, Max2(0, F32Roundf(x))))

\* lines 131 - 144: the zero point of the asymmetric pack
FlZeroPoint(min, scale) ==
    Once(IF F32Eq(scale, F32Zero) THEN min
         ELSE F32Sub(F32Zero, F32Div(min, scale)),
         LAMBDA zero_point_fp :
           IF F32Less(zero_point_fp, F32Zero) THEN 0
           ELSE IF F32Less(F32OfInt(15), zero_point_fp) THEN 15
           ELSE F32Roundf(zero_point_fp))

\* the float stored at offset at of the packed buffer
FlScaleBytes(at, scale) ==
    Once(F32Bytes(scale), LAMBDA bytes :
      [o \in at..(at + 3) |-> bytes[o - at + 1]])

\* one block of MlasQ4GemmPackBImpl<T>, T in BLK0, BLK2, BLK4: what it
\* stores for the klen values blk, with the blob at dst_ptr
FlBlobSym(T, dst_ptr, blk) ==
    Once(FlSymScan(blk, 1, F32Zero, F32Zero), LAMBDA max :
    Once(F32Div(max, F32OfInt(0 - 8)), LAMBDA scale :
    Once(FlReciprocal(scale), LAMBDA reciprocal_scale :
    Once(<<[p \in 0..(Len(blk) - 1) |->
              FlSymNibble(F32Mul(blk[p + 1], reciprocal_scale))],
           FlSymNibble(F32Zero)>>, LAMBDA n :
      [stores |-> FlScaleBytes(dst_ptr + MlasQ4BlkScaleOff(T), scale)
                    @@ Q4Payload(T, dst_ptr, Len(blk), n[1], n[2]),
       max |-> max, scale |-> scale, zp |-> NoByte, nibs |-> n[1],
       reciprocal_scale |-> reciprocal_scale]))))

\* one block of MlasQ4GemmPackBImpl<MLAS_Q4TYPE_BLK1>
FlBlobAsym(T, dst_ptr, blk) ==
    Once(FlAsymScan(blk, 1, F32Max, F32Neg(F32Max)), LAMBDA range :
    Once(<<F32Min(range[1], F32Zero), F32Max2(range[2], F32Zero)>>,
         LAMBDA mm :
    Once(F32Div(F32Sub(mm[2], mm[1]), F32OfInt(15)), LAMBDA scale :
    Once(<<FlReciprocal(scale), FlZeroPoint(mm[1], scale)>>, LAMBDA rz :
    Once(<<[p \in 0..(Len(blk) - 1) |->
              FlAsymNibble(blk[p + 1], rz[1], rz[2])],
           FlAsymNibble(F32Zero, rz[1], rz[2])>>, LAMBDA n :
      [stores |-> FlScaleBytes(dst_ptr + MlasQ4BlkScaleOff(T), scale)
                    @@ (dst_ptr + MlasQ4BlkZeroPointOff(T) :> rz[2])
                    @@ Q4Payload(T, dst_ptr, Len(blk), n[1], n[2]),
       min |-> mm[1], max |-> mm[2], scale |-> scale, zp |-> rz[2],
       nibs |-> n[1], reciprocal_scale |-> rz[1]])))))

\* the blocks of a column of K values: block b holds FpData[k + 1 .. k + klen]
FlBlock(T, FpData, b) ==
    LET k == b * BlkLen(T)
        klen == Min2(BlkLen(T), Len(FpData) - k)
    IN  [p \in 1..klen |-> FpData[k + p]]

\* MlasQ4GemmPackB(QType, PackedBuf, FpData, 1, K, 1): per block what it
\* stored, and the buffer of MlasQ4GemmPackBSize(QType, 1, K) bytes after it
\* (-1: a byte that was never written)
FlPack(QType, FpData) ==
    Once(<<Q4TypeOf(QType), FpData>>, LAMBDA in :
    Once([b \in 0..(MlasDivRoundup(Len(in[2]), BlkLen(in[1])) - 1) |->
            Once(FlBlock(in[1], in[2], b), LAMBDA blk :
              IF HasZeroPoint(in[1])
              THEN FlBlobAsym(in[1], b * BlobSize(in[1]), blk)
              ELSE FlBlobSym(in[1], b * BlobSize(in[1]), blk))],
         LAMBDA blobs :
      [blobs |-> blobs,
       PackedBuf |->
          [o \in 0..(BlkQ4BufSize(in[1], 1, Len(in[2])) - 1) |->
              IF o \in DOMAIN blobs[o \div BlobSize(in[1])].stores
              THEN blobs[o \div BlobSize(in[1])].stores[o]
              ELSE NoByte]]))

\* range2scalezp<float, qbits>(min, max, scale, zp)
range2scalezpF32(qbits, min, max) ==
    Once(<<Pow2(qbits) - 1, F32Min(min, F32Zero), F32Max2(max, F32Zero)>>,
         LAMBDA v :
    Once(F32Div(F32Sub(v[3], v[2]), F32OfInt(v[1])), LAMBDA scale_f :
    Once(IF F32Eq(scale_f, F32Zero) THEN v[2]
         ELSE F32Sub(F32Zero, F32Div(v[2], scale_f)),
         LAMBDA zero_point_fp :
      [scale |-> scale_f,
       zp |-> IF F32Less(zero_point_fp, F32Zero) THEN 0
              ELSE IF F32Less(F32OfInt(v[1]), zero_point_fp) THEN v[1]
              ELSE F32Roundf(zero_point_fp)])))

\* range2scale<float, qbits>(min, max, scale)
range2scaleF32(qbits, min, max) ==
    Once(IF F32Less(F32Abs(min), F32Abs(max)) THEN max ELSE min, LAMBDA m :
      F32Div(m, F32OfInt(0 - Pow2(qbits - 1))))

\* the longest block of values drawn freely
MaxFlK == 3

\* the floats the blocks are drawn from: 0, the smallest float above 0,
\* 2^-130 (the reciprocal of a scale made of it is infinite), 4, and their
\* negatives
FlSmall == <<0, 0, Pow2(19)>>
FlValues ==
    {F32Zero, F32Tiny, F32Neg(F32Tiny), FlSmall, F32Neg(FlSmall),
     F32OfInt(4), F32OfInt(0 - 4)}

\* the ends of the reduced ranges: the same and the multiples of 2^-149
\* around the ranges whose quotients round to 0
FlRangeValues ==
    FlValues \cup {<<sgn, 0, n>> : sgn \in {0, 1}, n \in {4, 5, 7, 8}}

\* the columns of the layout tests: 1, 2, ..., K, and -4, -2, 2, 4
FlRamp(K) == [p \in 1..K |-> F32OfInt(p)]
FlLayoutColumns ==
    {FlRamp(32), FlRamp(33),
     <<F32OfInt(0 - 4), F32OfInt(0 - 2), F32OfInt(2), F32OfInt(4)>>,
     [p \in 1..32 |-> F32Zero], [p \in 1..33 |-> F32Zero]}

FlColumns ==
    UNION {[1..K -> FlValues] : K \in 1..MaxFlK} \cup FlLayoutColumns

FlInputs ==
    {[kind |-> "pack", QType |-> qt, FpData |-> col] :
        qt \in QTypes, col \in FlColumns}
    \cup {[kind |-> "range", min |-> r[1], max |-> r[2]] :
            r \in {x \in FlRangeValues \X FlRangeValues :
                      ~F32Less(x[2], x[1])}}

FlPackB ==
    /\ fl_pc = "idle"
    /\ fl_in.kind = "pack"
    /\ \E r \in {FlPack(fl_in.QType, fl_in.FpData)} :
          fl_out' = [fn |-> "MlasQ4GemmPackB", blobs |-> r.blobs,
                     PackedBuf |-> r.PackedBuf]
    /\ fl_pc' = "done"
    /\ UNCHANGED <<sz_vars, q4_vars, bq_vars, rr_vars, id_vars, qd_vars, fl_in>>

FlRange2ScaleZp ==
    /\ fl_pc = "idle"
    /\ fl_in.kind = "range"
    /\ \E qbits \in RangeQBits :
          fl_out' = [fn |-> "range2scalezp", qbits |-> qbits,
                     scale |-> range2scalezpF32(qbits, fl_in.min, fl_in.max).scale,
                     zp |-> range2scalezpF32(qbits, fl_in.min, fl_in.max).zp]
    /\ fl_pc' = "done"
    /\ UNCHANGED <<sz_vars, q4_vars, bq_vars, rr_vars, id_vars, qd_vars, fl_in>>

FlRange2Scale ==
    /\ fl_pc = "idle"
    /\ fl_in.kind = "range"
    /\ \E qbits \in RangeQBits :
          fl_out' = [fn |-> "range2scale", qbits |-> qbits,
                     scale |-> range2scaleF32(qbits, fl_in.min, fl_in.max)]
    /\ fl_pc' = "done"
    /\ UNCHANGED <<sz_vars, q4_vars, bq_vars, rr_vars, id_vars, qd_vars, fl_in>>

InitFlt ==
    /\ fl_in \in FlInputs
    /\ fl_pc = "idle"
    /\ fl_out = [kind |-> "none"]
    /\ SzIdle
    /\ Q4Idle
    /\ BqIdle
    /\ RrIdle
    /\ IdIdle
    /\ QdIdle

NextFlt ==
    \/ FlPackB
    \/ FlRange2ScaleZp
    \/ FlRange2Scale

SpecFlt == InitFlt /\ [][NextFlt]_vars

(***************************************************************************)
(* Properties of the packed bytes in binary32.                             *)
(***************************************************************************)
\* MlasQ4GemmPackB has packed the column col with QType
FlPacked(QType, col) ==
    /\ fl_pc = "done"
    /\ fl_in.kind = "pack"
    /\ fl_in.QType = QType
    /\ fl_in.FpData = col

\* the statement of C22 as the layout test has it: scale 4.0 (bytes 0..3 =
\* 00 00 80 40), nibble 9 for element 0 and nibble 13 for element 16,
\* byte 4 == 0xD9
C22_LayoutSymAsStated ==
    FlPacked("BlkQ4Sym", FlRamp(32)) =>
        /\ fl_out.blobs[0].scale = F32OfInt(4)
        /\ <<fl_out.PackedBuf[0], fl_out.PackedBuf[1], fl_out.PackedBuf[2],
             fl_out.PackedBuf[3]>> = <<0, 0, 128, 64>>
        /\ fl_out.blobs[0].nibs[0] = 9
        /\ fl_out.blobs[0].nibs[16] = 13
        /\ fl_out.PackedBuf[4] = 217

\* C22: layout test, Q4Gemm SYM with K = 32, N = 1 and input [1, 2, ..., 32]:
\* the packed blob has scale -4.0 (bytes 0..3 = 00 00 80 C0), and byte 4
\* packs the nibble 8 for element 0 and the nibble 4 for element 16, i.e.
\* byte 4 == 0x48.
C22_LayoutSym ==
    FlPacked("BlkQ4Sym", FlRamp(32)) =>
        /\ fl_out.blobs[0].scale = F32OfInt(0 - 4)
        /\ <<fl_out.PackedBuf[0], fl_out.PackedBuf[1], fl_out.PackedBuf[2],
             fl_out.PackedBuf[3]>> = <<0, 0, 128, 192>>
        /\ fl_out.blobs[0].nibs[0] = 8
        /\ fl_out.blobs[0].nibs[16] = 4
        /\ fl_out.PackedBuf[4] = 72

C22_Witness ==
    /\ FlPacked("BlkQ4Sym", FlRamp(32))
    /\ Size(fl_out.PackedBuf) = 20
    /\ fl_out.PackedBuf[4] # NoByte

\* the column -4, -2, 2, 4 of the asymmetric layout test
FlAsymTest == <<F32OfInt(0 - 4), F32OfInt(0 - 2), F32OfInt(2), F32OfInt(4)>>

\* the statement of C23 as the layout test has it: zero point 8 and the
\* nibbles 0, 4, 12, 15
C23_LayoutAsymAsStated ==
    FlPacked("BlkQ4Zp8", FlAsymTest) =>
        /\ fl_out.blobs[0].min = F32OfInt(0 - 4)
        /\ fl_out.blobs[0].max = F32OfInt(4)
        /\ fl_out.blobs[0].scale = F32Div(F32OfInt(8), F32OfInt(15))
        /\ fl_out.blobs[0].zp = 8
        /\ fl_out.blobs[0].nibs = [p \in 0..3 |-> <<0, 4, 12, 15>>[p + 1]]

\* C23: layout test, asymmetric Q4 pack of one block with K = 4 and values
\* [-4, -2, 2, 4]: min = -4, max = 4, scale = the float nearest to 8/15
\* (bytes 0..3 = 89 88 08 3F, above 8/15), zero point = 7 (the float
\* 4 / scale is below 7.5), and the four quantized nibbles are 0, 3, 11 and
\* 15 in that order.
C23_LayoutAsym ==
    FlPacked("BlkQ4Zp8", FlAsymTest) =>
        /\ fl_out.blobs[0].min = F32OfInt(0 - 4)
        /\ fl_out.blobs[0].max = F32OfInt(4)
        /\ fl_out.blobs[0].scale = F32Div(F32OfInt(8), F32OfInt(15))
        /\ <<fl_out.PackedBuf[0], fl_out.PackedBuf[1], fl_out.PackedBuf[2],
             fl_out.PackedBuf[3]>> = <<137, 136, 8, 63>>
        /\ fl_out.blobs[0].zp = 7
        /\ fl_out.PackedBuf[4] = 7
        /\ fl_out.blobs[0].nibs = [p \in 0..3 |-> <<0, 3, 11, 15>>[p + 1]]

C23_Witness ==
    /\ FlPacked("BlkQ4Zp8", FlAsymTest)
    /\ fl_out.blobs[0].zp # NoByte
    /\ DOMAIN fl_out.blobs[0].nibs = 0..3

\* the payload nibble of position p of block b in the packed buffer (-1: the
\* byte was never written)
FlNibbleAt(QType, buf, b, p) ==
    LET T == Q4TypeOf(QType)
        at == b * BlobSize(T) + MlasQ4BlkDataOff(T)
                + Q4DataIndex(32 * (p \div 32), p % 16)
    IN  NibbleOf(buf[at], p % 32 >= 16)

\* the ragged blocks of the packed column: klen < BlkLen
FlRaggedBlocks ==
    {b \in DOMAIN fl_out.blobs :
        Size(fl_out.blobs[b].nibs) < BlkLen(Q4TypeOf(fl_in.QType))}

\* the statement of C24 with the pad values 0 (symmetric) and the zero point
\* (ASYM) at every position from klen to BlkLen - 1
C24_RaggedPadAsStated ==
    (fl_pc = "done" /\ fl_in.kind = "pack") =>
        /\ \A b \in FlRaggedBlocks :
              \A p \in Size(fl_out.blobs[b].nibs)
                         ..(BlkLen(Q4TypeOf(fl_in.QType)) - 1) :
                  FlNibbleAt(fl_in.QType, fl_out.PackedBuf, b, p)
                    = (IF HasZeroPoint(Q4TypeOf(fl_in.QType))
                       THEN fl_out.blobs[b].zp ELSE 0)
        /\ (fl_in.QType = "BlkQ4Sym" /\ fl_in.FpData = FlRamp(33)) =>
              \A p \in 1..31 :
                  FlNibbleAt(fl_in.QType, fl_out.PackedBuf, 1, p) = 0

\* C24: after MlasQ4GemmPackB, in every blob whose k-block is ragged
\* (klen < BlkLen), every payload nibble at a block position p with
\* klen <= p < 32 * ceil(klen / 32) holds the deterministic pad value: 8 (the
\* nibble of 0.0f) for the symmetric types and, for ASYM, the block's zero
\* point, or 0 when the reciprocal of the block's scale is infinite; with
\* K = 33 and BlkLen = 32 the second block's 31 remaining positions pack as 8.
\* The pack does not write the positions in sub-strides that lie wholly
\* beyond klen.
C24_RaggedPad ==
    (fl_pc = "done" /\ fl_in.kind = "pack") =>
        /\ \A b \in FlRaggedBlocks :
              LET klen == Size(fl_out.blobs[b].nibs)
                  T == Q4TypeOf(fl_in.QType)
              IN  \A p \in klen..(BlkLen(T) - 1) :
                      FlNibbleAt(fl_in.QType, fl_out.PackedBuf, b, p)
                        = (IF p >= 32 * CeilDiv(klen, 32) THEN NoByte
                           ELSE IF ~HasZeroPoint(T) THEN 8
                           ELSE IF F32IsInf(fl_out.blobs[b].reciprocal_scale)
                           THEN 0
                           ELSE fl_out.blobs[b].zp)
        /\ (fl_in.QType = "BlkQ4Sym" /\ fl_in.FpData = FlRamp(33)) =>
              /\ 1 \in FlRaggedBlocks
              /\ \A p \in 1..31 :
                    FlNibbleAt(fl_in.QType, fl_out.PackedBuf, 1, p) = 8

\* a ragged second block of BlkLen 32, and a ragged block of a longer BlkLen
\* with a sub-stride beyond klen
C24_Witness ==
    /\ fl_pc = "done"
    /\ fl_in.kind = "pack"
    /\ fl_in.FpData = FlRamp(33)
    /\ fl_in.QType \in {"BlkQ4Sym", "BlkQ4Sym64"}
    /\ FlRaggedBlocks # {}

(***************************************************************************)
(* Either packer on its input: the blockwise quantizer (and its            *)
(* dequantizer), or MlasQ4GemmPackB in binary32.                           *)
(***************************************************************************)
InitPack == InitBlk \/ InitFlt

NextPack == NextBlk \/ NextFlt

SpecPack == InitPack /\ [][NextPack]_vars

\* the cells of the meta grid whose source values are all 0
ZeroCells(in, data) ==
    {c \in (0..(MetaRows(in) - 1)) \X (0..(MetaCols(in) - 1)) :
        CellRange(in, data, c[1], c[2]) = <<RZero, RZero>>}

\* the source elements of cell c
CellElements(in, c) ==
    {e \in (0..(in.rows - 1)) \X (0..(in.columns - 1)) :
        e[1] \div BlockRows(in) = c[1] /\ e[2] \div BlockCols(in) = c[2]}

\* the blocks of the packed column whose values are all 0
FlZeroBlocks ==
    {b \in DOMAIN fl_out.blobs :
        \A p \in DOMAIN FlBlock(Q4TypeOf(fl_in.QType), fl_in.FpData, b) :
            FlBlock(Q4TypeOf(fl_in.QType), fl_in.FpData, b)[p] = F32Zero}

\* the positions of block b in the sub-strides the pack stores
FlStoredPositions(b) ==
    0..(32 * CeilDiv(Size(fl_out.blobs[b].nibs), 32) - 1)

\* the all-zero blocks with a symmetric nibble sym and the zero point in
\* asymmetric mode
ZeroBlocksPackAs(sym) ==
    /\ (bq_pc = "quantized" /\ Supported(bq_in)) =>
          \A c \in ZeroCells(bq_in, bq_data) :
              /\ RIsZero(bq_scales[c[2] * MetaRows(bq_in) + c[1]])
              /\ \A e \in CellElements(bq_in, c) :
                    StoredNibble(bq_in, e[1], e[2])
                      = (IF bq_data.hasZp THEN ZeroPointOf(bq_in, c[1], c[2])
                         ELSE sym)
    /\ (fl_pc = "done" /\ fl_in.kind = "pack") =>
          \A b \in FlZeroBlocks :
              /\ F32IsZero(fl_out.blobs[b].scale)
              /\ \A p \in FlStoredPositions(b) :
                    FlNibbleAt(fl_in.QType, fl_out.PackedBuf, b, p)
                      = (IF HasZeroPoint(Q4TypeOf(fl_in.QType))
                         THEN fl_out.blobs[b].zp ELSE sym)

\* the statement of C25 with the nibble 0 in symmetric mode
C25_ZeroBlockAsStated == ZeroBlocksPackAs(0)

\* C25: for a block whose values are all 0, the stored scale is 0 and every
\* payload nibble of the block is 8 in symmetric mode and equals the block's
\* zero point (which is 0) in asymmetric mode, in the Q4 GEMM pack and in the
\* blockwise quantizer.
C25_ZeroBlock ==
    /\ ZeroBlocksPackAs(8)
    /\ (bq_pc = "quantized" /\ Supported(bq_in) /\ bq_data.hasZp) =>
          \A c \in ZeroCells(bq_in, bq_data) :
              ZeroPointOf(bq_in, c[1], c[2]) = 0
    /\ (fl_pc = "done" /\ fl_in.kind = "pack"
          /\ HasZeroPoint(Q4TypeOf(fl_in.QType))) =>
          \A b \in FlZeroBlocks : fl_out.blobs[b].zp = 0

\* a symmetric blockwise quantization of a matrix with an all-zero block
C25_Witness ==
    /\ bq_pc = "quantized"
    /\ Supported(bq_in)
    /\ ~bq_data.hasZp
    /\ ZeroCells(bq_in, bq_data) # {}
    /\ \E c \in ZeroCells(bq_in, bq_data) : \E e \in CellElements(bq_in, c) :
          StoredNibble(bq_in, e[1], e[2]) = 8

\* the same of the Q4 GEMM pack, for both modes
C25_WitnessQ4Gemm ==
    /\ fl_pc = "done"
    /\ fl_in.kind = "pack"
    /\ FlZeroBlocks # {}

(***************************************************************************)
(* Properties of the range reductions.                                     *)
(***************************************************************************)
\* range2scale returned m / -mid for this m
Range2ScaleOf(m) ==
    rr_out.scale = RStored(RDiv(m, RInt(0 - 2 ^ (rr_out.qbits - 1))))

\* the statement of C26 with max on a tie of the magnitudes
C26_TiePicksMax ==
    (rr_pc = "done" /\ rr_out.fn = "range2scale") =>
        /\ RLess(RAbs(rr_in.min), RAbs(rr_in.max)) => Range2ScaleOf(rr_in.max)
        /\ RLess(RAbs(rr_in.max), RAbs(rr_in.min)) => Range2ScaleOf(rr_in.min)
        /\ RAbs(rr_in.max) = RAbs(rr_in.min) => Range2ScaleOf(rr_in.max)

\* C26: range2scale(min, max) picks m as whichever of min and max has the
\* larger absolute value, picking min when |min| == |max|, and returns
\* scale = m / -mid (m / -8 for 4 bits); in particular a block with min = -a
\* and max = +a (a > 0) gets scale = -a / -8 = a / 8.
C26_TiePicksMin ==
    (rr_pc = "done" /\ rr_out.fn = "range2scale") =>
        /\ RLess(RAbs(rr_in.min), RAbs(rr_in.max)) => Range2ScaleOf(rr_in.max)
        /\ RLess(RAbs(rr_in.max), RAbs(rr_in.min)) => Range2ScaleOf(rr_in.min)
        /\ RAbs(rr_in.max) = RAbs(rr_in.min) => Range2ScaleOf(rr_in.min)
        /\ (RLess(RZero, rr_in.max) /\ rr_in.min = RSub(RZero, rr_in.max)
              /\ rr_out.qbits = 4) =>
              rr_out.scale = RStored(RDiv(rr_in.max, RInt(8)))

\* range2scale<4> of a block with min = -a and max = a, a > 0
C26_Witness ==
    /\ rr_pc = "done"
    /\ rr_out.fn = "range2scale"
    /\ rr_out.qbits = 4
    /\ RLess(RZero, rr_in.max)
    /\ rr_in.min = RSub(RZero, rr_in.max)
    /\ RLess(RZero, rr_out.scale)

\* the reductions of the call: the values scanned and the scale stored, per
\* block of the packed column or for the reduced range
FlReductions ==
    IF fl_in.kind = "pack"
    THEN {[vals |-> Range(FlBlock(Q4TypeOf(fl_in.QType), fl_in.FpData, b)),
           scale |-> fl_out.blobs[b].scale] : b \in DOMAIN fl_out.blobs}
    ELSE {[vals |-> {fl_in.min, fl_in.max}, scale |-> fl_out.scale]}

\* the statement of C27: the scale is zero exactly when every value is 0
C27_ZeroScaleIffZeroBlock ==
    fl_pc = "done" =>
        \A r \in FlReductions :
            F32IsZero(r.scale) <=> \A v \in r.vals : F32IsZero(v)

\* C27: both range reductions produce a zero scale if every value of the
\* scanned (non-empty) block is 0, and only if every value of the block is 0
\* or a denormal of magnitude at most 7 * 2^-149, whose range divided by the
\* number of levels underflows to 0; a block that holds just the smallest
\* positive float, 2^-149, has a zero scale: range2scalezp and range2scale
\* over the block's (min, max), and the symmetric and asymmetric Q4 GEMM pack
\* scans.
C27_ZeroScale ==
    fl_pc = "done" =>
        \A r \in FlReductions :
            /\ (\A v \in r.vals : F32IsZero(v)) => F32IsZero(r.scale)
            /\ F32IsZero(r.scale) =>
                  \A v \in r.vals : v[2] = 0 /\ v[3] <= 7
            /\ r.vals = {F32Tiny} => F32IsZero(r.scale)

\* each of the four reductions of a block that holds just 2^-149
C27_Witness ==
    /\ fl_pc = "done"
    /\ fl_in.kind = "range"
    /\ fl_in.min = F32Tiny
    /\ fl_in.max = F32Tiny
    /\ fl_out.fn = "range2scale"
    /\ F32IsZero(fl_out.scale)

C27_WitnessPack ==
    /\ fl_pc = "done"
    /\ fl_in.kind = "pack"
    /\ \E r \in FlReductions : r.vals = {F32Tiny} /\ F32IsZero(r.scale)

\* the scale of an all-zero block in the symmetric blockwise quantizer:
\* range2scale stores 0.0f / -8 = -0.0f, dequantize gives (8 - 8) * -0.0f =
\* -0.0f for every element, and the re-pack stores -0.0f / -8 = 0.0f, a
\* scale of other bytes
ZeroScaleSignAlternates ==
    /\ range2scaleF32(4, F32Zero, F32Zero) = F32Neg(F32Zero)
    /\ F32Mul(F32Sub(F32OfInt(8), F32OfInt(8)), F32Neg(F32Zero))
         = F32Neg(F32Zero)
    /\ range2scaleF32(4, F32Neg(F32Zero), F32Neg(F32Zero)) = F32Zero
    /\ F32Bytes(F32Neg(F32Zero)) = <<0, 0, 0, 128>>
    /\ F32Bytes(F32Zero) = <<0, 0, 0, 0>>

(***************************************************************************)
(* Properties of the payload buffer of the blockwise quantizer.            *)
(***************************************************************************)
\* the statement of C28: every byte of the payload buffer of q_rows * q_cols
\* bytes has been written
C28_PayloadAllWritten ==
    (bq_pc = "quantized" /\ Supported(bq_in)) =>
        /\ Size(bq_dst) = QRows(bq_in) * QCols(bq_in)
        /\ \A o \in 0..(QRows(bq_in) * QCols(bq_in) - 1) : bq_dst[o] \in 0..255

\* C28: after blockwise quantizeAndTranspose, of the payload buffer of
\* data_bytes = q_rows * q_cols bytes, every byte dst[j * q_rows + i / 2]
\* with j < columns and i < rows has been written with a value determined by
\* the input alone (the nibbles of rows i and i + 1, or the zero point of row
\* i in the high nibble when i + 1 = rows), and no other byte has been
\* written: the bytes of the rows in [2 * ceil(rows / 2), meta_rows *
\* block_rows) and of the columns in [columns, meta_cols * block_cols) keep
\* what the caller's buffer held.
C28_PayloadWritten ==
    (bq_pc = "quantized" /\ Supported(bq_in)) =>
        /\ Size(bq_dst) = QRows(bq_in) * QCols(bq_in)
        /\ \A o \in 0..(QRows(bq_in) * QCols(bq_in) - 1) :
              LET j == o \div QRows(bq_in)
                  i == 2 * (o % QRows(bq_in))
              IN  IF j < bq_in.columns /\ i < bq_in.rows
                  THEN bq_dst[o]
                         = PackNibblesMasked(
                              QuantizedValue(bq_in, i, j),
                              IF i + 1 < bq_in.rows
                              THEN QuantizedValue(bq_in, i + 1, j)
                              ELSE ZeroPointOf(bq_in, i \div BlockRows(bq_in),
                                               j \div BlockCols(bq_in)))
                  ELSE bq_dst[o] = NoByte

\* a column-wise and a row-wise quantization of a shape that is not a
\* multiple of the block size: bytes of both kinds
C28_Witness ==
    /\ bq_pc = "quantized"
    /\ Supported(bq_in)
    /\ bq_in.rows % 2 = 1
    /\ \E o \in DOMAIN bq_dst : bq_dst[o] = NoByte
    /\ \E o \in DOMAIN bq_dst : bq_dst[o] \in 1..255

(***************************************************************************)
(* The stores of BlockwiseQDQQuantizer::quantizeColumnWise.                *)
(***************************************************************************)
\* how many stores of all tiles went to index x, log[t] being the indices
\* tile t stored to
QdqStoresTo(log, x) ==
    Cardinality({p \in UNION {{<<t, n>> : n \in DOMAIN log[t]} :
                                 t \in DOMAIN log} : log[p[1]][p[2]] = x})

\* C29: for columns a positive multiple of pack_count, quantizeColumnWise
\* writes every dst byte index in [0, rows * columns / pack_count) exactly
\* once, every scale index in [0, ceil(rows / quant_block_size) * columns)
\* exactly once and, when zero_points is given, every zero-point byte exactly
\* once, no two tiles writing the same location; the last pack_count-wide
\* column group of every tile is processed.
C29_QdqWritesOnce ==
    (qd_pc = "done" /\ ~qd_in.rowwise) =>
        LET P == 8 \div qd_in.qbits
            metas == CeilDiv(qd_in.rows, qd_in.quant_block_size)
                       * qd_in.columns
        IN  /\ \A x \in 0..((qd_in.rows * qd_in.columns) \div P - 1) :
                  /\ QdqStoresTo(qd_dstW, x) = 1
                  /\ qd_dst[x] \in 0..255
            /\ \A x \in 0..(metas - 1) :
                  /\ QdqStoresTo(qd_scW, x) = 1
                  /\ qd_scales[x] # NoFloat
            /\ qd_data.hasZp =>
                  \A x \in 0..(metas \div P - 1) :
                      /\ QdqStoresTo(qd_zpW, x) = 1
                      /\ qd_zero_points[x] \in 0..255

\* what the tiles do write: no location twice, and of every tile the column
\* groups before its last one
QdqWritesAtMostOnce ==
    (qd_pc = "done" /\ ~qd_in.rowwise) =>
        /\ \A x \in DOMAIN qd_dst : QdqStoresTo(qd_dstW, x) <= 1
        /\ \A x \in DOMAIN qd_scales : QdqStoresTo(qd_scW, x) <= 1
        /\ \A x \in DOMAIN qd_zero_points : QdqStoresTo(qd_zpW, x) <= 1
        /\ \A x \in DOMAIN qd_scales :
              LET P == 8 \div qd_in.qbits
                  col == x % qd_in.columns
                  last == Min2(thr_blk_size,
                               qd_in.columns
                                 - (col \div thr_blk_size) * thr_blk_size) - P
              IN  (qd_scales[x] # NoFloat) <=> (col % thr_blk_size < last)

(***************************************************************************)
(* The QDQ quantizer against the blockwise quantizer, both column-wise and *)
(* 4-bit, on the matrix and the block size of the QDQ call.                *)
(***************************************************************************)
\* the blockwise call on the input of the QDQ call
BlockwiseCallOf(in) ==
    [cw |-> TRUE, rows |-> in.rows, columns |-> in.columns,
     block_size |-> in.quant_block_size]
BlockwiseDataOf(in, data) ==
    [seed |-> data.seed, ld |-> in.columns, hasZp |-> data.hasZp]

\* lines 505 - 527: the scale and the zero point quantizeAndTranspose gives
\* the block of element (i, j)
BlockwiseMetaOf(in, data, i, j) ==
    CHOOSE r \in
        {IF data.hasZp
         THEN range2scalezp(4, mm[1], mm[2])
         ELSE [scale |-> range2scale(4, mm[1], mm[2]), zp |-> kMid(4)] :
            mm \in {CellRange(BlockwiseCallOf(in), BlockwiseDataOf(in, data),
                              i \div in.quant_block_size, j)}} : TRUE
\* lines 534 - 547: its quantized value of element (i, j)
BlockwiseQuantized(in, data, i, j) ==
    CHOOSE q \in
        {QuantNibble(SrcAt(data.seed, i * in.columns + j),
                     Reciprocal(m.scale), m.zp) :
            m \in {BlockwiseMetaOf(in, data, i, j)}} : TRUE

\* what the QDQ call left for element (i, j): the scale, the zero point
\* (kMid when zero_points is null) and the quantized value
QdqStoredScale(i, j) ==
    qd_scales[(i \div qd_in.quant_block_size) * qd_in.columns + j]
QdqStoredZeroPoint(i, j) ==
    LET sidx == (i \div qd_in.quant_block_size) * qd_in.columns + j
    IN  IF qd_data.hasZp
        THEN NibbleOf(qd_zero_points[sidx \div 2], sidx % 2 = 1)
        ELSE kMid(4)
QdqComparable ==
    /\ qd_pc = "done"
    /\ ~qd_in.rowwise
    /\ qd_in.qbits = 4
    /\ qd_in.quant_block_size \in {16, 32, 64, 128, 256}

\* C30: for 4-bit columnwise quantization of the same matrix with the same
\* block size and zero-point option, the QDQ quantizer and the blockwise
\* quantizer compute the same scale, the same zero point and the same
\* quantized value for every element (i, j).
C30_QdqEqualsBlockwise ==
    QdqComparable =>
        \A i \in 0..(qd_in.rows - 1), j \in 0..(qd_in.columns - 1) :
            /\ QdqStoredScale(i, j) = BlockwiseMetaOf(qd_in, qd_data, i, j).scale
            /\ QdqStoredZeroPoint(i, j)
                 = BlockwiseMetaOf(qd_in, qd_data, i, j).zp
            /\ QdqSrcNibble(qd_in, qd_dst, i, j)
                 = BlockwiseQuantized(qd_in, qd_data, i, j)

\* the same of the elements the QDQ call did write
QdqWrittenEqualsBlockwise ==
    QdqComparable =>
        \A i \in 0..(qd_in.rows - 1), j \in 0..(qd_in.columns - 1) :
            QdqStoredScale(i, j) # NoFloat =>
                /\ QdqStoredScale(i, j)
                     = BlockwiseMetaOf(qd_in, qd_data, i, j).scale
                /\ QdqStoredZeroPoint(i, j)
                     = BlockwiseMetaOf(qd_in, qd_data, i, j).zp
                /\ QdqSrcNibble(qd_in, qd_dst, i, j)
                     = BlockwiseQuantized(qd_in, qd_data, i, j)

\* the elements the QDQ call did write have the scale and the zero point of
\* the blockwise quantizer, and a quantized value that is the same or, when
\* v / scale is halfway between two integers and negative, one less
QdqWrittenNearBlockwise ==
    QdqComparable =>
        \A i \in 0..(qd_in.rows - 1), j \in 0..(qd_in.columns - 1) :
            QdqStoredScale(i, j) # NoFloat =>
                /\ QdqStoredScale(i, j)
                     = BlockwiseMetaOf(qd_in, qd_data, i, j).scale
                /\ QdqStoredZeroPoint(i, j)
                     = BlockwiseMetaOf(qd_in, qd_data, i, j).zp
                /\ BlockwiseQuantized(qd_in, qd_data, i, j)
                     - QdqSrcNibble(qd_in, qd_dst, i, j) \in {0, 1}

=============================================================================
